---------------------------- MODULE Spec2Model ----------------------------
(***************************************************************************)
(* A model of the Gompertz forecasting tool of src/app.js: the curve       *)
(* evaluator, the curve fitter, the data-quality analyser, the             *)
(* intervention model, and the wizard's event handlers with the deferred   *)
(* fitting callback.                                                       *)
(*                                                                         *)
(* Numbers.  JavaScript numbers are IEEE doubles.  Here a finite number is *)
(* an integer count of 1/Scale units (fixed point, truncating), and the    *)
(* three non-finite doubles are the values NaN, PosInf and NegInf below.   *)
(* Arithmetic on them follows IEEE (Inf - Inf = NaN, 0 * Inf = NaN,        *)
(* comparisons with NaN are false, Math.max/Math.min return NaN when an    *)
(* argument is NaN).  Math.exp is a fixed-point approximation: a table of  *)
(* e^k and a Taylor polynomial for the fraction.  It is 0 below e^-10 and  *)
(* saturates at e^7; gompertzModel clamps -exp(..) to -700 and exp(-700)   *)
(* is 0 at this resolution, so saturation never changes a model value.     *)
(* Finite overflow of doubles (beyond 1.8e308) is outside the value range  *)
(* of the model.                                                           *)
(***************************************************************************)
EXTENDS Integers, Sequences, FiniteSets, TLC

Scale == 100 * 100
PosInf == 2000 * 1000 * 1000
NegInf == 0 - PosInf
NaN == PosInf + 1

U(k) == k * Scale

isFinite(x) == x # NaN /\ x # PosInf /\ x # NegInf
isNaN(x) == x = NaN

Abs(x) == IF x < 0 THEN 0 - x ELSE x
Sign(x) == IF x < 0 THEN 0 - 1 ELSE IF x > 0 THEN 1 ELSE 0

\* comparisons of doubles: false as soon as one side is NaN
Lt(a, b) == a # NaN /\ b # NaN /\ a < b
Le(a, b) == a # NaN /\ b # NaN /\ a <= b
Gt(a, b) == Lt(b, a)
Ge(a, b) == Le(b, a)

FNeg(a) == IF a = NaN THEN NaN ELSE 0 - a
MathAbs(a) == IF a = NaN THEN NaN ELSE Abs(a)

FAdd(a, b) ==
  IF a = NaN \/ b = NaN THEN NaN
  ELSE IF ~isFinite(a) /\ ~isFinite(b) THEN (IF a = b THEN a ELSE NaN)
  ELSE IF ~isFinite(a) THEN a
  ELSE IF ~isFinite(b) THEN b
  ELSE a + b

FSub(a, b) == FAdd(a, FNeg(b))

\* product of two finite fixed-point numbers, truncated toward zero
MulFx(a, b) ==
  LET x == Abs(a)
      y == Abs(b)
      xh == x \div Scale
      xl == x % Scale
      yh == y \div Scale
      yl == y % Scale
      p == xh * yh * Scale + xh * yl + xl * yh + (xl * yl) \div Scale
  IN  Sign(a) * Sign(b) * p

FMul(a, b) ==
  IF a = NaN \/ b = NaN THEN NaN
  ELSE IF ~isFinite(a) \/ ~isFinite(b)
       THEN (IF a = 0 \/ b = 0 THEN NaN
             ELSE IF Sign(a) * Sign(b) > 0 THEN PosInf ELSE NegInf)
  ELSE MulFx(a, b)

\* quotient of two finite fixed-point numbers, b # 0, truncated toward zero
DivFx(a, b) ==
  LET x == Abs(a)
      y == Abs(b)
      q == x \div y
      r == x % y
      f == IF y <= 200000 THEN (r * Scale) \div y
           ELSE IF r <= 20000000 THEN ((r \div 100) * Scale) \div (y \div 100)
           ELSE ((r \div Scale) * Scale) \div (y \div Scale)
  IN  Sign(a) * Sign(b) * (q * Scale + f)

FDiv(a, b) ==
  IF a = NaN \/ b = NaN THEN NaN
  ELSE IF ~isFinite(a) /\ ~isFinite(b) THEN NaN
  ELSE IF ~isFinite(a) THEN (IF Sign(a) * (IF b < 0 THEN 0 - 1 ELSE 1) > 0 THEN PosInf ELSE NegInf)
  ELSE IF ~isFinite(b) THEN 0
  ELSE IF b = 0 THEN (IF a = 0 THEN NaN ELSE IF a > 0 THEN PosInf ELSE NegInf)
  ELSE DivFx(a, b)

MathMax(a, b) == IF a = NaN \/ b = NaN THEN NaN ELSE IF a >= b THEN a ELSE b
MathMin(a, b) == IF a = NaN \/ b = NaN THEN NaN ELSE IF a <= b THEN a ELSE b

\* e^k in fixed point, k = 0 .. 10, at index k + 1
ExpTable == << 10000, 27183, 73891, 200855, 545982, 1484132, 4034288,
               10966332, 29809580, 81030839, 220264658 >>

\* e^f for 0 <= f < 1 (f in fixed point): Taylor polynomial of degree 8
ExpFrac(f) ==
  LET t1 == f
      t2 == (t1 * f) \div (2 * Scale)
      t3 == (t2 * f) \div (3 * Scale)
      t4 == (t3 * f) \div (4 * Scale)
      t5 == (t4 * f) \div (5 * Scale)
      t6 == (t5 * f) \div (6 * Scale)
      t7 == (t6 * f) \div (7 * Scale)
      t8 == (t7 * f) \div (8 * Scale)
  IN  Scale + t1 + t2 + t3 + t4 + t5 + t6 + t7 + t8

\* e^x for 0 <= x < 10
ExpPos(x) == MulFx(ExpTable[(x \div Scale) + 1], ExpFrac(x % Scale))

\* e^x from e^|x|
ExpOfSign(x, e) == IF x >= 0 THEN e ELSE (Scale * Scale) \div e

MathExp(x) ==
  IF x = NaN THEN NaN
  ELSE IF x = PosInf THEN PosInf
  ELSE IF x = NegInf THEN 0
  ELSE IF x >= U(7) THEN ExpTable[8]
  ELSE IF x <= 0 - U(10) THEN 0
  ELSE ExpOfSign(x, ExpPos(Abs(x)))

(***************************************************************************)
(* gompertzModel, src/app.js 67-101                                        *)
(***************************************************************************)
\* Math.max(-700, Math.min(700, x)) (81, 91)
Clamp700(x) == MathMax(0 - U(700), MathMin(U(700), x))

\* the result checked at 95-100
FiniteOrNaN(result) == IF ~isFinite(result) THEN NaN ELSE result

\* lines 84-100, from inner_exp on
GompertzFrom(K, inner_exp) ==
  IF ~isFinite(inner_exp) THEN NaN
  ELSE FiniteOrNaN(FMul(K, MathExp(Clamp700(0 - inner_exp))))

MutGompertzModel(t, K, b, t0) ==
  IF ~isFinite(K) \/ ~isFinite(b) \/ ~isFinite(t0) THEN NaN
  ELSE IF b <= 0 THEN NaN
  ELSE GompertzFrom(K, MathExp(Clamp700(FMul(0 - b, FSub(t, t0)))))
gompertzModel(t, K, b, t0) ==
  IF ~isFinite(K) \/ ~isFinite(b) \/ ~isFinite(t0) THEN NaN
  ELSE IF K <= 0 \/ b <= 0 THEN NaN
  ELSE GompertzFrom(K, MathExp(Clamp700(FMul(0 - b, FSub(t, t0)))))


(***************************************************************************)
(* fitGompertzCurve, src/app.js 103-273.  data is a sequence of numbers;   *)
(* index i of the source is position i + 1 here.                           *)
(***************************************************************************)
RECURSIVE MaxFrom(_, _)
MaxFrom(data, i) ==
  IF i > Len(data) THEN NegInf ELSE MathMax(data[i], MaxFrom(data, i + 1))

\* Math.max(...data): -Infinity for no arguments
MathMaxOf(data) == MaxFrom(data, 1)

\* the multipliers 1.1, 1.3, 1.5, 2.0, 2.5
K_steps == << 11000, 13000, 15000, 20000, 25000 >>
\* 0.05, 0.1, 0.15, 0.2, 0.3, 0.4
b_steps == << 500, 1000, 1500, 2000, 3000, 4000 >>
t0_steps(n) == << 0 - U(2), 0, (n * 3 * Scale) \div 10, (n * 5 * Scale) \div 10,
                  (n * 7 * Scale) \div 10, U(n + 2) >>

learningRate == Scale \div 1000
iterations == 50

\* Math.pow(x, 2)
Square(x) == FMul(x, x)

\* a sequence given by a rule for its elements, as the tuple of their values
Strict(seq) == seq \o << >>

\* the sum of a sequence of numbers from the left, by halves of the positions
\* from .. to, acc being the sum so far
RECURSIVE SumRange(_, _, _, _)
SumRange(terms, from, to, acc) ==
  IF from > to THEN acc
  ELSE IF from = to THEN FAdd(acc, terms[from])
  ELSE SumRange(terms, (from + to) \div 2 + 1, to,
                SumRange(terms, from, (from + to) \div 2, acc))

\* the predictions of the model at the indices of data (132, 172, 244)
Predictions(data, K, b, t0) ==
  Strict(
  [i \in 1 .. Len(data) |-> gompertzModel(U(i - 1), K, b, t0)])

\* the terms added to error (137)
SquaredErrors(data, predicted) ==
  Strict(
  [i \in 1 .. Len(data) |-> Square(FSub(data[i], predicted[i]))])

\* the inner loop of the grid search (131-138): whether a prediction was not
\* finite, and the squared error otherwise
CandidateError(data, predicted) ==
  IF \E i \in 1 .. Len(data) : ~isFinite(predicted[i])
  THEN [hasNaN |-> TRUE, error |-> 0]
  ELSE [hasNaN |-> FALSE,
        error |-> SumRange(SquaredErrors(data, predicted), 1, Len(data), 0)]

\* the candidates in the order of the three loops (120-127), numbered from 1:
\* position c is K_steps[ki], b_steps[bi], t0_steps[ti] with
\* c - 1 = 36 * (ki - 1) + 6 * (bi - 1) + (ti - 1)
GridSize == Len(K_steps) * Len(b_steps) * 6
GridCandidate(n, maxAccounts, c) ==
  [K |-> FMul(maxAccounts, K_steps[(c - 1) \div 36 + 1]),
   b |-> b_steps[(((c - 1) \div 6) % 6) + 1],
   t0 |-> t0_steps(n)[((c - 1) % 6) + 1]]

\* the outcome of one candidate: skipped (122, 125), or its inner loop
GridOutcome(data, maxAccounts, cand) ==
  IF Le(cand.K, maxAccounts) \/ cand.b <= 0 \/ cand.b > U(1)
  THEN [hasNaN |-> TRUE, error |-> 0]
  ELSE CandidateError(data, Predictions(data, cand.K, cand.b, cand.t0))
GridOutcomes(data, maxAccounts) ==
  Strict(
  [c \in 1 .. GridSize |->
     GridOutcome(data, maxAccounts, GridCandidate(Len(data), maxAccounts, c))])

\* whether a candidate replaces the best one so far (140)
BetterCandidate(c, error, bestError) ==
  ~c.hasNaN /\ isFinite(error) /\ Lt(error, bestError)

\* the candidates at which line 140 holds when the loops reach them:
\* bestError is Infinity, or the error of an earlier such candidate
MutImproving(outcomes) ==
  { c \in 1 .. GridSize :
      /\ BetterCandidate(outcomes[c], outcomes[c].error, PosInf)
      /\ \A j \in 1 .. c - 1 :
           BetterCandidate(outcomes[j], outcomes[j].error, PosInf)
             => Le(outcomes[c].error, outcomes[j].error) }
Improving(outcomes) ==
  { c \in 1 .. GridSize :
      /\ BetterCandidate(outcomes[c], outcomes[c].error, PosInf)
      /\ \A j \in 1 .. c - 1 :
           BetterCandidate(outcomes[j], outcomes[j].error, PosInf)
             => Lt(outcomes[c].error, outcomes[j].error) }

\* bestParams, bestError and validFits after the loops (140-147)
KeepBest(cand, error, validFits) ==
  [found |-> TRUE, K |-> cand.K, b |-> cand.b, t0 |-> cand.t0, error |-> error,
   validFits |-> validFits]

NoCandidate == [found |-> FALSE, K |-> NaN, b |-> NaN, t0 |-> NaN, error |-> PosInf,
                validFits |-> 0]
LastState(states) == states[Len(states)]
LastOf(improving) == CHOOSE c \in improving : \A j \in improving : j <= c
BestOf(n, maxAccounts, outcomes, improving) ==
  IF improving = {} THEN NoCandidate
  ELSE KeepBest(GridCandidate(n, maxAccounts, LastOf(improving)),
                outcomes[LastOf(improving)].error, Cardinality(improving))
GridBest(n, maxAccounts, outcomes) ==
  BestOf(n, maxAccounts, outcomes, Improving(outcomes))
GridSearch(data, maxAccounts) ==
  GridBest(Len(data), maxAccounts, GridOutcomes(data, maxAccounts))

\* bestParams as the refinement receives it (151-159)
BestOrFallback(data, maxAccounts, best) ==
  IF best.found THEN [K |-> best.K, b |-> best.b, t0 |-> best.t0]
  ELSE [K |-> FMul(maxAccounts, 15000), b |-> 2000,
        t0 |-> (Len(data) * 5 * Scale) \div 10]
InitialParams(data, maxAccounts) ==
  BestOrFallback(data, maxAccounts, GridSearch(data, maxAccounts))

\* the gradient loop of one iteration (171-194): the terms one index adds,
\* a skipped index (181) adding nothing, and whether the index leaves
\* validGrads true
GradientTerms(p, i, error, exp_inner, exp_outer) ==
  IF ~isFinite(exp_inner) \/ ~isFinite(exp_outer)
  THEN [valid |-> FALSE, gradK |-> 0, gradB |-> 0, gradT0 |-> 0]
  ELSE
    LET e2 == FMul(U(2), error)
        common == FMul(FMul(FMul(e2, p.K), exp_outer), exp_inner)
    IN  [valid |-> TRUE,
         gradK |-> FMul(e2, exp_outer),
         gradB |-> FMul(common, U(i - 1) - p.t0),
         gradT0 |-> FMul(common, p.b)]
GradientExp(p, i, error, exp_inner) ==
  GradientTerms(p, i, error, exp_inner, MathExp(FNeg(exp_inner)))
GradientStep(data, p, i, predicted, exponent) ==
  IF ~isFinite(predicted) THEN [valid |-> FALSE, gradK |-> 0, gradB |-> 0, gradT0 |-> 0]
  ELSE IF Abs(exponent) > U(100) THEN [valid |-> TRUE, gradK |-> 0, gradB |-> 0, gradT0 |-> 0]
  ELSE GradientExp(p, i, FSub(predicted, data[i]), MathExp(exponent))
GradientSteps(data, p) ==
  Strict(
  [i \in 1 .. Len(data) |->
     GradientStep(data, p, i, gompertzModel(U(i - 1), p.K, p.b, p.t0),
                  FMul(0 - p.b, U(i - 1) - p.t0))])
\* validGrads and the three sums; the loop breaks at the first invalid index
\* and the sums are not used then (196-199)
SumGradients(terms, n) ==
  IF \E i \in 1 .. n : ~terms[i].valid
  THEN [validGrads |-> FALSE, gradK |-> 0, gradB |-> 0, gradT0 |-> 0]
  ELSE [validGrads |-> TRUE,
        gradK |-> SumRange(Strict([i \in 1 .. n |-> terms[i].gradK]), 1, n, 0),
        gradB |-> SumRange(Strict([i \in 1 .. n |-> terms[i].gradB]), 1, n, 0),
        gradT0 |-> SumRange(Strict([i \in 1 .. n |-> terms[i].gradT0]), 1, n, 0)]
Gradients(data, p) == SumGradients(GradientSteps(data, p), Len(data))

\* the update of one iteration (202-204)
NewParams(p, g, n) ==
  [K |-> FSub(p.K, FDiv(FMul(learningRate, g.gradK), U(n))),
   b |-> FSub(p.b, FDiv(FMul(learningRate, g.gradB), U(n))),
   t0 |-> FSub(p.t0, FDiv(FMul(learningRate, g.gradT0), U(n)))]

\* the test of an update (207-209)
MutAcceptUpdate(q, maxAccounts) ==
  /\ Gt(q.K, maxAccounts) /\ Lt(q.K, FMul(maxAccounts, U(5)))
  /\ Lt(q.b, U(1))
  /\ isFinite(q.K) /\ isFinite(q.b) /\ isFinite(q.t0)
AcceptUpdate(q, maxAccounts) ==
  /\ Gt(q.K, maxAccounts) /\ Lt(q.K, FMul(maxAccounts, U(5)))
  /\ Gt(q.b, Scale \div 100) /\ Lt(q.b, U(1))
  /\ isFinite(q.K) /\ isFinite(q.b) /\ isFinite(q.t0)

\* the refinement loop (167-217): the parameters after it, and the number of
\* updates applied; stopped is the break of 198 and of 215.  The iterations
\* are run in order, count of them from s, the first half before the second.
RefineUpdate(s, q, maxAccounts) ==
  IF AcceptUpdate(q, maxAccounts)
  THEN [params |-> q, updates |-> s.updates + 1, stopped |-> FALSE]
  ELSE [s EXCEPT !.stopped = TRUE]
RefineStep(data, maxAccounts, s, g) ==
  IF ~g.validGrads \/ ~isFinite(g.gradK) \/ ~isFinite(g.gradB) \/ ~isFinite(g.gradT0)
  THEN [s EXCEPT !.stopped = TRUE]
  ELSE RefineUpdate(s, NewParams(s.params, g, Len(data)), maxAccounts)
RefineIteration(data, maxAccounts, s) ==
  IF s.stopped THEN s
  ELSE RefineStep(data, maxAccounts, s, Gradients(data, s.params))
RECURSIVE RefineIterations(_, _, _, _)
RefineIterations(data, maxAccounts, s, count) ==
  IF s.stopped \/ count = 0 THEN s
  ELSE IF count = 1 THEN RefineIteration(data, maxAccounts, s)
  ELSE RefineIterations(data, maxAccounts,
                        RefineIterations(data, maxAccounts, s, count \div 2),
                        count - count \div 2)
Refine(data, maxAccounts, p) ==
  RefineIterations(data, maxAccounts, [params |-> p, updates |-> 0, stopped |-> FALSE],
                   iterations)

\* the corrections after the refinement (228-236)
CorrectK(K, maxAccounts) ==
  IF Le(K, maxAccounts) THEN FMul(maxAccounts, 12000) ELSE K
CorrectB(b) ==
  IF b <= 0 \/ b > U(1) THEN MathMax(500, MathMin(5000, b)) ELSE b

\* data.reduce((sum, val) => sum + val, 0) from position i on (239)
SumFrom(data, i) == SumRange(data, i, Len(data), 0)

\* the accumulation of ssRes and ssTot (243-252): an index with a prediction
\* that is not finite adds to neither
ResidualTerms(data, mean, predicted) ==
  Strict(
  [i \in 1 .. Len(data) |->
     IF ~isFinite(predicted[i]) THEN [finite |-> FALSE, res |-> 0, tot |-> 0]
     ELSE [finite |-> TRUE, res |-> Square(FSub(data[i], predicted[i])),
           tot |-> Square(FSub(data[i], mean))]])
SumResiduals(terms, n) ==
  [hasNaNPredictions |-> \E i \in 1 .. n : ~terms[i].finite,
   ssRes |-> SumRange(Strict([i \in 1 .. n |-> terms[i].res]), 1, n, 0),
   ssTot |-> SumRange(Strict([i \in 1 .. n |-> terms[i].tot]), 1, n, 0)]
Residuals(data, p, mean) ==
  SumResiduals(ResidualTerms(data, mean, Predictions(data, p.K, p.b, p.t0)), Len(data))

\* the integer square root, and Math.sqrt (to 1/100 of a unit above 20)
RECURSIVE ISqrtBits(_, _, _)
ISqrtBits(x, r, bit) ==
  IF bit = 0 THEN r
  ELSE IF r + bit <= x \div (r + bit) THEN ISqrtBits(x, r + bit, bit \div 2)
  ELSE ISqrtBits(x, r, bit \div 2)
MathSqrt(x) ==
  IF x = NaN \/ x = NegInf THEN NaN
  ELSE IF x = PosInf THEN PosInf
  ELSE IF x < 0 THEN NaN
  ELSE IF x <= 200000 THEN ISqrtBits(x * Scale, 0, 32768)
  ELSE ISqrtBits(x, 0, 32768) * 100

NullFit == [isNull |-> TRUE, params |-> [K |-> NaN, b |-> NaN, t0 |-> NaN],
            r2 |-> 0, rmse |-> 0, valid |-> FALSE, updates |-> 0]

\* r2 (258) and rmse (259)
MutRSquared(acc) ==
  IF Gt(acc.ssTot, 0) THEN FSub(U(1), FDiv(acc.ssRes, acc.ssTot)) ELSE 0
RSquared(acc) ==
  IF Gt(acc.ssTot, 0)
  THEN MathMax(0, MathMin(U(1), FSub(U(1), FDiv(acc.ssRes, acc.ssTot))))
  ELSE 0
Rmse(acc, n) == MathSqrt(FDiv(acc.ssRes, U(n)))

\* the object returned (267-272)
FitResult(params, updates, hasNaNPredictions, r2, rmse) ==
  [isNull |-> FALSE, params |-> params,
   r2 |-> IF isFinite(r2) THEN r2 ELSE 0,
   rmse |-> IF isFinite(rmse) THEN rmse ELSE PosInf,
   valid |-> ~hasNaNPredictions /\ isFinite(r2),
   updates |-> updates]

\* lines 238-272 for the corrected parameters
FitStatistics(n, params, updates, acc) ==
  FitResult(params, updates, acc.hasNaNPredictions, RSquared(acc), Rmse(acc, n))
FitQuality(data, params, updates) ==
  FitStatistics(Len(data), params, updates,
    Residuals(data, params, FDiv(SumFrom(data, 1), U(Len(data)))))

\* lines 219-272 for the outcome of the refinement
FitFrom(data, maxAccounts, bp, updates) ==
  IF ~isFinite(bp.K) \/ ~isFinite(bp.b) \/ ~isFinite(bp.t0) THEN NullFit
  ELSE FitQuality(data, [K |-> CorrectK(bp.K, maxAccounts), b |-> CorrectB(bp.b), t0 |-> bp.t0],
                  updates)
FitRefined(data, maxAccounts, refined) ==
  FitFrom(data, maxAccounts, refined.params, refined.updates)
FitWithMax(data, maxAccounts) ==
  FitRefined(data, maxAccounts,
             Refine(data, maxAccounts, InitialParams(data, maxAccounts)))

fitGompertzCurve(data) == FitWithMax(data, MathMaxOf(data))


(***************************************************************************)
(* The historical series.  A point is a record                             *)
(*   [period, accounts, isMissing, dataType, isOutlier];                   *)
(* accounts is Null for a missing point (null in the source), and          *)
(* isOutlier, which the source leaves undefined until it is first set, is  *)
(* FALSE until then.                                                       *)
(***************************************************************************)
Null == NaN + 1

RECURSIVE CountMissing(_, _)
CountMissing(data, i) ==
  IF i > Len(data) THEN 0
  ELSE (IF data[i].isMissing THEN 1 ELSE 0) + CountMissing(data, i + 1)

\* data.filter(d => !d.isMissing), as the positions kept
RECURSIVE ValidIndices(_, _)
ValidIndices(data, i) ==
  IF i > Len(data) THEN << >>
  ELSE IF data[i].isMissing THEN ValidIndices(data, i + 1)
  ELSE << i >> \o ValidIndices(data, i + 1)

\* ... .map(d => d.accounts)
ValidAccounts(data) ==
  LET idx == ValidIndices(data, 1) IN [k \in 1 .. Len(idx) |-> data[idx[k]].accounts]

RECURSIVE SumSquares(_, _, _)
SumSquares(accounts, mean, i) ==
  IF i > Len(accounts) THEN 0
  ELSE LET d == FSub(accounts[i], mean)
       IN  FAdd(FMul(d, d), SumSquares(accounts, mean, i + 1))

\* the z-score test of one value (507-508)
IsOutlierValue(v, mean, stdDev) == Gt(MathAbs(FDiv(FSub(v, mean), stdDev)), U(2))

\* the positions the outlier pass flags (499-512): none below 5 valid points
OutlierIndices(data) ==
  LET idx == ValidIndices(data, 1)
      accounts == ValidAccounts(data)
      n == Len(accounts)
      mean == FDiv(SumFrom(accounts, 1), U(n))
      stdDev == MathSqrt(FDiv(SumSquares(accounts, mean, 1), U(n)))
  IN  IF n >= 5 THEN { idx[k] : k \in { j \in 1 .. n : IsOutlierValue(accounts[j], mean, stdDev) } }
      ELSE { }

\* valid points smaller than the valid point before them (526-530)
NonMonotonicCount(data) ==
  LET accounts == ValidAccounts(data)
  IN  Cardinality({ k \in 2 .. Len(accounts) : Lt(accounts[k], accounts[k - 1]) })

\* the deduction for missing points (465-496)
MutMissingDeduction(missingCount) ==
  IF missingCount = 0 THEN 0
  ELSE IF missingCount <= 2 THEN 10 * missingCount
  ELSE IF missingCount <= 5 THEN 10
  ELSE 50
MissingDeduction(missingCount) ==
  IF missingCount = 0 THEN 0
  ELSE IF missingCount <= 2 THEN 10 * missingCount
  ELSE IF missingCount <= 5 THEN 30
  ELSE 50

MissingIssue(missingCount, total) ==
  IF missingCount = 0 THEN [type |-> "success", kind |-> "complete", count |-> total]
  ELSE IF missingCount <= 2 THEN [type |-> "warning", kind |-> "missingFew", count |-> missingCount]
  ELSE IF missingCount <= 5 THEN [type |-> "warning", kind |-> "missingSome", count |-> missingCount]
  ELSE [type |-> "error", kind |-> "missingMany", count |-> missingCount]

\* the deduction for too few valid points (543-560)
MutSampleDeduction(validCount) ==
  IF validCount <= 8 THEN 40 ELSE IF validCount < 12 THEN 10 ELSE 0
SampleDeduction(validCount) ==
  IF validCount < 8 THEN 40 ELSE IF validCount < 12 THEN 10 ELSE 0

SampleIssues(validCount) ==
  IF validCount < 8 THEN << [type |-> "error", kind |-> "insufficient", count |-> validCount] >>
  ELSE IF validCount < 12 THEN << [type |-> "warning", kind |-> "few", count |-> validCount] >>
  ELSE << >>

\* the score (459-562)
QualityScore(missingCount, outlierCount, nonMonotonicCount, validCount) ==
  LET score == 100 - MissingDeduction(missingCount) - 5 * outlierCount
               - 5 * nonMonotonicCount - SampleDeduction(validCount)
  IN  IF score < 0 THEN 0 ELSE IF score > 100 THEN 100 ELSE score

\* the flags after the outlier pass (506-512): set, never cleared
MutFlagOutliers(data, outliers) ==
  [i \in 1 .. Len(data) |->
     IF i \in outliers THEN [data[i] EXCEPT !.isOutlier = ~@] ELSE data[i]]
FlagOutliers(data, outliers) ==
  [i \in 1 .. Len(data) |->
     IF i \in outliers THEN [data[i] EXCEPT !.isOutlier = TRUE] ELSE data[i]]

(***************************************************************************)
(* analyzeDataQuality, src/app.js 456-571: the series with its flags       *)
(* written back, and the report stored in state.dataQuality.               *)
(***************************************************************************)
AnalysisOf(data, missingCount, outliers, nonMonotonicCount, validCount) ==
  [data |-> FlagOutliers(data, outliers),
   report |-> [score |-> QualityScore(missingCount, Cardinality(outliers),
                                      nonMonotonicCount, validCount),
               issues |-> << MissingIssue(missingCount, Len(data)) >>
                          \o (IF Cardinality(outliers) > 0
                              THEN << [type |-> "warning", kind |-> "outliers",
                                       count |-> Cardinality(outliers)] >>
                              ELSE << >>)
                          \o (IF nonMonotonicCount > 0
                              THEN << [type |-> "warning", kind |-> "nonMonotonic",
                                       count |-> nonMonotonicCount] >>
                              ELSE << >>)
                          \o SampleIssues(validCount),
               missingCount |-> missingCount,
               validCount |-> validCount,
               totalCount |-> Len(data)]]

analyzeDataQuality(data) ==
  AnalysisOf(data, CountMissing(data, 1), OutlierIndices(data), NonMonotonicCount(data),
             Len(ValidIndices(data, 1)))


(***************************************************************************)
(* applyIntervention, src/app.js 275-363: the value returned, and the      *)
(* return statement that produced it.                                      *)
(***************************************************************************)
LN2 == 6931

\* the guard of the early return before the launch (291)
MutBeforeLaunch(t, launchQuarter) == FALSE
BeforeLaunch(t, launchQuarter) == Lt(t, launchQuarter)

\* 297-313
MutAccelerationFactor(tSinceLaunch, ip) ==
  IF Lt(tSinceLaunch, ip.window_length)
  THEN LET decayExponent == FDiv(FMul(0 - LN2, tSinceLaunch), ip.half_life)
           clampedExp == MathMax(0 - U(100), MathMin(0, decayExponent))
           decayFactor == MathExp(clampedExp)
           cappedAlpha == MathMax(0, ip.alpha)
       IN  IF ~isFinite(decayFactor) THEN U(1)
           ELSE FAdd(U(1), FMul(cappedAlpha, decayFactor))
  ELSE U(1)
AccelerationFactor(tSinceLaunch, ip) ==
  IF Lt(tSinceLaunch, ip.window_length)
  THEN LET decayExponent == FDiv(FMul(0 - LN2, tSinceLaunch), ip.half_life)
           clampedExp == MathMax(0 - U(100), MathMin(0, decayExponent))
           decayFactor == MathExp(clampedExp)
           cappedAlpha == MathMin(Scale \div 2, MathMax(0, ip.alpha))
       IN  IF ~isFinite(decayFactor) THEN U(1)
           ELSE FAdd(U(1), FMul(cappedAlpha, decayFactor))
  ELSE U(1)

\* 315-335
CapacityFactor(tSinceLaunch, ip) ==
  LET cappedKappa == MathMin(Scale \div 5, MathMax(0, ip.kappa))
  IN  IF Lt(tSinceLaunch, ip.expansion_length)
      THEN LET expansionProgress == FDiv(tSinceLaunch, ip.expansion_length)
               expansionExp == FMul(0 - U(3), expansionProgress)
               clampedExpansion == MathMax(0 - U(100), MathMin(0, expansionExp))
               expansionSmoother == FSub(U(1), MathExp(clampedExpansion))
           IN  IF ~isFinite(expansionSmoother) THEN U(1)
               ELSE FAdd(U(1), FMul(cappedKappa, expansionSmoother))
      ELSE FAdd(U(1), cappedKappa)

\* the final test of the model's result (357)
MutResultInvalid(result) == FALSE
ResultInvalid(result) == ~isFinite(result)

\* 357-362
InterventionResult(baselineValue, result) ==
  IF ResultInvalid(result) THEN [value |-> baselineValue, path |-> "invalidResult"]
  ELSE [value |-> result, path |-> "model"]

\* 349-362
InterventionAdjusted(t, baselineValue, adjustedK, adjustedB, adjustedT0) ==
  IF ~isFinite(adjustedK) \/ ~isFinite(adjustedB) \/ ~isFinite(adjustedT0)
  THEN [value |-> baselineValue, path |-> "invalidAdjusted"]
  ELSE InterventionResult(baselineValue, gompertzModel(t, adjustedK, adjustedB, adjustedT0))

\* the adjusted parameters (344-346)
AdjustedK(params, capacityFactor) == FMul(params.K, capacityFactor)
AdjustedB(params, accelerationFactor) == FMul(params.b, MathMin(U(2), accelerationFactor))
AdjustedT0(params, ip) == FSub(params.t0, MathMin(U(5), MathMax(0, ip.delta_t)))

\* 337-362
InterventionFactors(t, baselineValue, params, ip, accelerationFactor, capacityFactor) ==
  IF ~isFinite(accelerationFactor) \/ ~isFinite(capacityFactor)
  THEN [value |-> baselineValue, path |-> "invalidFactors"]
  ELSE InterventionAdjusted(t, baselineValue,
         AdjustedK(params, capacityFactor),
         AdjustedB(params, accelerationFactor),
         AdjustedT0(params, ip))

applyInterventionTrace(t, baselineValue, params, ip, launchQuarter) ==
  IF ~isFinite(t) \/ ~isFinite(baselineValue)
  THEN [value |-> baselineValue, path |-> "invalidInputs"]
  ELSE IF ~isFinite(params.K) \/ ~isFinite(params.b) \/ ~isFinite(params.t0)
  THEN [value |-> baselineValue, path |-> "invalidParams"]
  ELSE IF BeforeLaunch(t, launchQuarter)
  THEN [value |-> baselineValue, path |-> "beforeLaunch"]
  ELSE InterventionFactors(t, baselineValue, params, ip,
         AccelerationFactor(FSub(t, launchQuarter), ip),
         CapacityFactor(FSub(t, launchQuarter), ip))

applyIntervention(t, baselineValue, params, ip, launchQuarter) ==
  applyInterventionTrace(t, baselineValue, params, ip, launchQuarter).value

\* the scenario parameters of the state literal and of the presets (15-19, 974-978)
Presets ==
  [conservative |-> [alpha |-> 1000, delta_t |-> 5000, kappa |-> 200,
                     half_life |-> U(6), window_length |-> U(6), expansion_length |-> U(8)],
   moderate |-> [alpha |-> 2000, delta_t |-> U(1), kappa |-> 500,
                 half_life |-> U(8), window_length |-> U(8), expansion_length |-> U(10)],
   aggressive |-> [alpha |-> 3500, delta_t |-> 15000, kappa |-> 800,
                   half_life |-> U(10), window_length |-> U(12), expansion_length |-> U(12)]]


(***************************************************************************)
(* The interpolation methods, src/app.js 1614-1682.  Each returns Null     *)
(* where the source returns null.                                          *)
(***************************************************************************)
\* the nearest non-missing position before index, 0 when there is none
RECURSIVE PrevValid(_, _)
PrevValid(data, i) ==
  IF i < 1 THEN 0 ELSE IF ~data[i].isMissing THEN i ELSE PrevValid(data, i - 1)

\* the nearest non-missing position after index, 0 when there is none
RECURSIVE NextValid(_, _)
NextValid(data, i) ==
  IF i > Len(data) THEN 0 ELSE IF ~data[i].isMissing THEN i ELSE NextValid(data, i + 1)

\* 1614-1645
MutLinearInterpolation(data, index) ==
  LET prevIndex == PrevValid(data, index - 1)
      nextIndex == NextValid(data, index + 1)
  IN  IF prevIndex > 0 THEN data[prevIndex].accounts
      ELSE IF nextIndex > 0 THEN data[nextIndex].accounts
      ELSE Null
MutLinearMidpoint(data, index) ==
  LET prevIndex == PrevValid(data, index - 1)
      nextIndex == NextValid(data, index + 1)
  IN  IF prevIndex > 0 /\ nextIndex > 0
      THEN LET prevValue == data[prevIndex].accounts
               nextValue == data[nextIndex].accounts
           IN  FAdd(prevValue, FMul(FSub(nextValue, prevValue), FDiv(U(1), U(2))))
      ELSE IF prevIndex > 0 THEN data[prevIndex].accounts
      ELSE IF nextIndex > 0 THEN data[nextIndex].accounts
      ELSE Null
linearInterpolation(data, index) ==
  LET prevIndex == PrevValid(data, index - 1)
      nextIndex == NextValid(data, index + 1)
  IN  IF prevIndex > 0 /\ nextIndex > 0
      THEN LET prevValue == data[prevIndex].accounts
               nextValue == data[nextIndex].accounts
               gap == nextIndex - prevIndex
               position == index - prevIndex
           IN  FAdd(prevValue, FMul(FSub(nextValue, prevValue), FDiv(U(position), U(gap))))
      ELSE IF prevIndex > 0 THEN data[prevIndex].accounts
      ELSE IF nextIndex > 0 THEN data[nextIndex].accounts
      ELSE Null

\* 1659-1663, with the result of the preliminary fit
GompertzEstimate(data, index, result) ==
  IF result.isNull \/ ~result.valid THEN linearInterpolation(data, index)
  ELSE IF isFinite(gompertzModel(U(index - 1), result.params.K, result.params.b,
                                 result.params.t0))
  THEN gompertzModel(U(index - 1), result.params.K, result.params.b, result.params.t0)
  ELSE linearInterpolation(data, index)

\* 1647-1664
MutGompertzInterpolation(data, index) ==
  IF Len(ValidAccounts(data)) < 7 THEN linearInterpolation(data, index)
  ELSE GompertzEstimate(data, index, fitGompertzCurve(ValidAccounts(data)))
gompertzInterpolation(data, index) ==
  IF Len(ValidAccounts(data)) < 8 THEN linearInterpolation(data, index)
  ELSE GompertzEstimate(data, index, fitGompertzCurve(ValidAccounts(data)))

\* 1666-1682
MutForwardFill(data, index) ==
  LET prevIndex == PrevValid(data, index - 1)
      nextIndex == NextValid(data, index + 1)
  IN  IF nextIndex > 0 THEN data[nextIndex].accounts
      ELSE IF prevIndex > 0 THEN data[prevIndex].accounts
      ELSE Null
forwardFill(data, index) ==
  LET prevIndex == PrevValid(data, index - 1)
      nextIndex == NextValid(data, index + 1)
  IN  IF prevIndex > 0 THEN data[prevIndex].accounts
      ELSE IF nextIndex > 0 THEN data[nextIndex].accounts
      ELSE Null

InterpolatedValue(data, method, i) ==
  IF method = "linear" THEN linearInterpolation(data, i)
  ELSE IF method = "gompertz" THEN gompertzInterpolation(data, i)
  ELSE IF method = "forward" THEN forwardFill(data, i)
  ELSE Null

\* one pass of the forEach over missingIndices (1554-1570): the points that were
\* missing when the handler started, in increasing order, each fill seeing the
\* fills before it
MutFillOne(data, i, interpolatedValue) ==
  IF interpolatedValue # Null
  THEN [data EXCEPT ![i] = [@ EXCEPT !.accounts = interpolatedValue,
                                     !.isMissing = FALSE,
                                     !.dataType = "Interpolated"]]
  ELSE data
FillOne(data, i, interpolatedValue) ==
  IF interpolatedValue # Null /\ isFinite(interpolatedValue)
  THEN [data EXCEPT ![i] = [@ EXCEPT !.accounts = interpolatedValue,
                                     !.isMissing = FALSE,
                                     !.dataType = "Interpolated"]]
  ELSE data
RECURSIVE FillMissing(_, _, _, _)
FillMissing(data, wasMissing, method, i) ==
  IF i > Len(data) THEN data
  ELSE IF ~wasMissing[i] THEN FillMissing(data, wasMissing, method, i + 1)
  ELSE FillMissing(FillOne(data, i, InterpolatedValue(data, method, i)),
                   wasMissing, method, i + 1)

\* the body of applyInterpolation from 1541 on, for a method other than ignore
MutInterpolated(data, method) ==
  SubSeq(FillMissing(data, [i \in 1 .. Len(data) |-> data[i].isMissing], method, 1),
         1, Len(data) - 1)
Interpolated(data, method) ==
  FillMissing(data, [i \in 1 .. Len(data) |-> data[i].isMissing], method, 1)

(***************************************************************************)
(* Period labels, src/app.js 39-64.  A label is a record: matches says     *)
(* whether the pattern Q<digit> <4 digits> occurs in it, quarter and year  *)
(* are the numbers the pattern captures.                                   *)
(***************************************************************************)
Label(quarter, year) == [matches |-> TRUE, quarter |-> quarter, year |-> year]
NoLabel == [matches |-> FALSE, quarter |-> 0, year |-> 0]

RECURSIVE QuartersFrom(_, _, _)
QuartersFrom(quarter, year, numQuarters) ==
  IF numQuarters <= 0 THEN << >>
  ELSE << Label(quarter, year) >>
       \o (IF quarter + 1 > 4 THEN QuartersFrom(1, year + 1, numQuarters - 1)
           ELSE QuartersFrom(quarter + 1, year, numQuarters - 1))

generateQuarters(startQuarter, numQuarters) ==
  IF ~startQuarter.matches THEN << >>
  ELSE QuartersFrom(startQuarter.quarter, startQuarter.year, numQuarters)

(***************************************************************************)
(* parseAndDisplayData, src/app.js 398-453.  The text is a sequence of     *)
(* lines; a line is a record [blank, parts, period, accountsStr]: whether  *)
(* it trims to nothing, the number of comma-separated fields, and for a    *)
(* line of two fields the trimmed fields.  A value field is a record       *)
(* [kind, v]: "empty", "dash", "null", "na" (in any case), "number" (a     *)
(* decimal numeral, v its value), "infinity" (the text Infinity), "prefix" *)
(* (a numeral followed by other text, v the numeral's value) or "text"     *)
(* (no leading numeral).                                                   *)
(***************************************************************************)
IsMissingMarker(accountsStr) == accountsStr.kind \in {"empty", "dash", "null", "na"}

parseFloat(str) ==
  IF str.kind \in {"number", "prefix"} THEN str.v
  ELSE IF str.kind = "infinity" THEN PosInf
  ELSE NaN

\* the loop over the lines (406-434): the points parsed, or the failure thrown
RECURSIVE ParseLines(_, _, _)
ParseLines(lines, i, data) ==
  IF i > Len(lines) THEN [ok |-> TRUE, data |-> data]
  ELSE
    LET line == lines[i]
        accounts == parseFloat(line.accountsStr)
        isMissing == IsMissingMarker(line.accountsStr)
        point == [period |-> line.period,
                  accounts |-> IF isMissing THEN Null ELSE accounts,
                  isMissing |-> isMissing,
                  dataType |-> IF isMissing THEN "Missing" ELSE "Original",
                  isOutlier |-> FALSE]
    IN  IF line.blank THEN ParseLines(lines, i + 1, data)
        ELSE IF line.parts # 2 THEN [ok |-> FALSE, data |-> << >>]
        ELSE IF ~isMissing /\ isNaN(accounts) THEN [ok |-> FALSE, data |-> << >>]
        ELSE IF ~isMissing /\ Lt(accounts, 0) THEN [ok |-> FALSE, data |-> << >>]
        ELSE ParseLines(lines, i + 1, Append(data, point))

\* the outcome of the try block (405-448)
ParseResult(lines) ==
  LET r == ParseLines(lines, 1, << >>)
  IN  IF r.ok /\ Len(r.data) >= 8 THEN r ELSE [ok |-> FALSE, data |-> << >>]


(***************************************************************************)
(* The inputs of the wizard.  The text pasted into the text area is one of *)
(* a few batches of quarterly lines starting at Q1 2020; the values typed  *)
(* into the prompt of editCell, the radio buttons, the slider moved and    *)
(* the two numeric inputs of step 3 are drawn from the sets below.         *)
(***************************************************************************)
NumberStr(v) == [kind |-> "number", v |-> v]
DashStr == [kind |-> "dash", v |-> 0]
InfinityStr == [kind |-> "infinity", v |-> 0]
TextStr == [kind |-> "text", v |-> 0]

PeriodAt(i) == Label(((i - 1) % 4) + 1, 2020 + ((i - 1) \div 4))
LinesOf(strs) ==
  [i \in 1 .. Len(strs) |->
     [blank |-> FALSE, parts |-> 2, period |-> PeriodAt(i), accountsStr |-> strs[i]]]

\* eight quarters of 0; nine quarters of growth with one quarter missing and a
\* jump in the last; seven quarters, one too few
ZeroBatch == LinesOf([i \in 1 .. 8 |-> NumberStr(0)])
GapBatch ==
  LinesOf(<< NumberStr(U(1)), NumberStr(U(2)), NumberStr(U(4)), DashStr, NumberStr(U(10)),
             NumberStr(U(13)), NumberStr(U(15)), NumberStr(U(16)), NumberStr(U(60)) >>)
ShortBatch == LinesOf([i \in 1 .. 7 |-> NumberStr(U(i))])

Batches == { ZeroBatch, GapBatch, ShortBatch }
Rows == 1 .. 9
PromptValues == { NumberStr(U(7)), NumberStr(U(60)), TextStr }
Methods == { "ignore", "linear" }
SliderMoves == { << "aggressive", "delta_t", U(3) >> }
Scenarios == { "conservative", "moderate", "aggressive" }
ForecastYears == { 1 }
PlatformLaunches == { 2 }

\* fitGompertzCurve on the series the batches lead to, computed once; any
\* other series is fitted where it is met
ParsedBatches == { ParseResult(lines).data : lines \in Batches }
FilledBatches == { Interpolated(d, m) : d \in ParsedBatches, m \in Methods \ { "ignore" } }
EditedBatches ==
  UNION { { [d EXCEPT ![i] = [@ EXCEPT !.accounts = parseFloat(v), !.isMissing = FALSE]] :
              i \in { j \in 1 .. Len(d) : d[j].isMissing },
              v \in { w \in PromptValues : ~isNaN(parseFloat(w)) } } :
          d \in ParsedBatches }
FitTable ==
  [accounts \in { ValidAccounts(d) : d \in ParsedBatches \cup FilledBatches \cup EditedBatches }
     |-> fitGompertzCurve(accounts)]
FitLookup(table, accounts) ==
  IF accounts \in DOMAIN table THEN table[accounts] ELSE fitGompertzCurve(accounts)
FitOf(accounts) == FitLookup(FitTable, accounts)

(***************************************************************************)
(* The state.  The fields of the state object (src/app.js 8-22) keep their *)
(* names; a field that may be null is a sequence, empty for null and of    *)
(* length one otherwise.  pendingFits counts the callbacks performFitting  *)
(* has handed to setTimeout that have not run yet, and call is the latest  *)
(* direct call of one of the functions, with its arguments and its result. *)
(***************************************************************************)
VARIABLES currentStep, historicalData, dataQuality, fittedParams, forecastData,
          scenarioParams, platformLaunchQuarter, interpolationMethod,
          pendingFits, call

vars == << currentStep, historicalData, dataQuality, fittedParams, forecastData,
           scenarioParams, platformLaunchQuarter, interpolationMethod,
           pendingFits, call >>

appVars == << currentStep, historicalData, dataQuality, fittedParams, forecastData,
              scenarioParams, platformLaunchQuarter, interpolationMethod,
              pendingFits >>

NoCall == [fn |-> "none"]

\* the state literal (8-22), nothing pending
Init ==
  /\ currentStep = 1
  /\ historicalData = << >>
  /\ dataQuality = << >>
  /\ fittedParams = << >>
  /\ forecastData = << >>
  /\ scenarioParams = Presets
  /\ platformLaunchQuarter = 1
  /\ interpolationMethod = "ignore"
  /\ pendingFits = 0
  /\ call = NoCall

\* analyzeDataQuality() on the state: the flags written back and the report stored
StoreAnalysis(a) ==
  /\ historicalData' = a.data
  /\ dataQuality' = << a.report >>
Analyzed(data) == StoreAnalysis(analyzeDataQuality(data))

(***************************************************************************)
(* Step 1: the data handlers.                                              *)
(***************************************************************************)
\* the input handler of the text area (1724) and loadSampleData (384-396)
ParseAndDisplayData(lines) ==
  /\ currentStep = 1
  /\ LET r == ParseResult(lines)
     IN  IF r.ok THEN Analyzed(r.data)
         ELSE UNCHANGED << historicalData, dataQuality >>
  /\ UNCHANGED << currentStep, fittedParams, forecastData, scenarioParams,
                  platformLaunchQuarter, interpolationMethod, pendingFits, call >>

\* the click handler of clearDataBtn (1718-1722)
ClearData ==
  /\ currentStep = 1
  /\ historicalData' = << >>
  /\ UNCHANGED << currentStep, dataQuality, fittedParams, forecastData, scenarioParams,
                  platformLaunchQuarter, interpolationMethod, pendingFits, call >>

\* the table offers editCell for a missing or an interpolated row (672-681)
EditOffered(row) == row.isMissing \/ row.dataType = "Interpolated"

\* the table offers confirmCell for a flagged row that is neither (682-686)
ConfirmOffered(row) == ~row.isMissing /\ row.dataType # "Interpolated" /\ row.isOutlier

\* editCell (707-722); value is what the prompt returned
MutEditCell(index, value) ==
  /\ currentStep = 1
  /\ index \in 1 .. Len(historicalData)
  /\ EditOffered(historicalData[index])
  /\ LET accounts == parseFloat(value)
     IN  IF ~isNaN(accounts) /\ Ge(accounts, 0)
         THEN Analyzed([historicalData EXCEPT ![index] =
                          [@ EXCEPT !.accounts = accounts, !.dataType = "Corrected"]])
         ELSE UNCHANGED << historicalData, dataQuality >>
  /\ UNCHANGED << currentStep, fittedParams, forecastData, scenarioParams,
                  platformLaunchQuarter, interpolationMethod, pendingFits, call >>
EditCell(index, value) ==
  /\ currentStep = 1
  /\ index \in 1 .. Len(historicalData)
  /\ EditOffered(historicalData[index])
  /\ LET accounts == parseFloat(value)
     IN  IF ~isNaN(accounts) /\ Ge(accounts, 0)
         THEN Analyzed([historicalData EXCEPT ![index] =
                          [@ EXCEPT !.accounts = accounts, !.isMissing = FALSE,
                                    !.dataType = "Corrected"]])
         ELSE UNCHANGED << historicalData, dataQuality >>
  /\ UNCHANGED << currentStep, fittedParams, forecastData, scenarioParams,
                  platformLaunchQuarter, interpolationMethod, pendingFits, call >>

\* confirmCell (724-730)
ConfirmCell(index) ==
  /\ currentStep = 1
  /\ index \in 1 .. Len(historicalData)
  /\ ConfirmOffered(historicalData[index])
  /\ Analyzed([historicalData EXCEPT ![index] =
                 [@ EXCEPT !.isOutlier = FALSE, !.dataType = "Confirmed"]])
  /\ UNCHANGED << currentStep, fittedParams, forecastData, scenarioParams,
                  platformLaunchQuarter, interpolationMethod, pendingFits, call >>

\* applyInterpolation (1536-1603); method is the radio button checked
ApplyInterpolation(method) ==
  /\ currentStep = 1
  /\ interpolationMethod' = method
  /\ IF CountMissing(historicalData, 1) = 0 \/ method = "ignore"
     THEN UNCHANGED << historicalData, dataQuality >>
     ELSE Analyzed(analyzeDataQuality(Interpolated(historicalData, method)).data)
  /\ UNCHANGED << currentStep, fittedParams, forecastData, scenarioParams,
                  platformLaunchQuarter, pendingFits, call >>

(***************************************************************************)
(* Steps 1 and 2: validateAndProceed and performFitting, 732-878.          *)
(***************************************************************************)
MaxPendingFits == 1

\* validateAndProceed (732-762); confirmLow and confirmMissing are the answers
\* to its two confirm dialogs.  Its last statement, performFitting, only
\* hands its callback to setTimeout (773, 877).
Stops(score, stillMissing, confirmLow, confirmMissing) ==
  \/ score < 60 /\ ~confirmLow
  \/ stillMissing > 0 /\ interpolationMethod = "ignore" /\ ~confirmMissing
ValidateAndProceed(confirmLow, confirmMissing) ==
  /\ currentStep = 1
  /\ pendingFits < MaxPendingFits
  /\ Len(historicalData) # 0
  /\ IF dataQuality = << >> THEN Analyzed(historicalData)
     ELSE UNCHANGED << historicalData, dataQuality >>
  /\ IF Stops(IF dataQuality = << >> THEN analyzeDataQuality(historicalData).report.score
              ELSE dataQuality[1].score,
              CountMissing(historicalData, 1), confirmLow, confirmMissing)
     THEN UNCHANGED << currentStep, pendingFits >>
     ELSE /\ currentStep' = 2
          /\ pendingFits' = pendingFits + 1
  /\ UNCHANGED << fittedParams, forecastData, scenarioParams, platformLaunchQuarter,
                  interpolationMethod, call >>

\* the callback of performFitting (773-877), 500 ms after it was set: it reads
\* the state as it is when it runs
StoreFit(result) ==
  IF result.isNull THEN UNCHANGED fittedParams ELSE fittedParams' = << result.params >>
FittingCallback ==
  /\ pendingFits > 0
  /\ pendingFits' = pendingFits - 1
  /\ StoreFit(FitOf(ValidAccounts(historicalData)))
  /\ UNCHANGED << currentStep, historicalData, dataQuality, forecastData, scenarioParams,
                  platformLaunchQuarter, interpolationMethod, call >>

\* goToStep (366-381) from the buttons of steps 2 to 4 (1728-1746)
GoToStep(from, to) ==
  /\ currentStep = from
  /\ currentStep' = to
  /\ UNCHANGED << historicalData, dataQuality, fittedParams, forecastData, scenarioParams,
                  platformLaunchQuarter, interpolationMethod, pendingFits, call >>

BackToStep1 == GoToStep(2, 1)
ProceedToStep3 == GoToStep(2, 3)
BackToStep2 == GoToStep(3, 2)
BackToStep3 == GoToStep(4, 3)

(***************************************************************************)
(* Step 3: the sliders and the presets, 949-1001.                          *)
(***************************************************************************)
SliderInput(scenario, paramKey, value) ==
  /\ currentStep = 3
  /\ scenarioParams' = [scenarioParams EXCEPT ![scenario][paramKey] = value]
  /\ UNCHANGED << currentStep, historicalData, dataQuality, fittedParams, forecastData,
                  platformLaunchQuarter, interpolationMethod, pendingFits, call >>

LoadScenarioPreset(scenario) ==
  /\ currentStep = 3
  /\ scenarioParams' = [scenarioParams EXCEPT ![scenario] = Presets[scenario]]
  /\ UNCHANGED << currentStep, historicalData, dataQuality, fittedParams, forecastData,
                  platformLaunchQuarter, interpolationMethod, pendingFits, call >>

(***************************************************************************)
(* Step 4: generateForecasts, 1004-1084.                                   *)
(***************************************************************************)
\* the launch time handed to applyIntervention (1050-1052)
LaunchTime(baseOffset, platformLaunch) == U(baseOffset + platformLaunch)

\* the baseline of forecast step i = 0, 1, .. (1031-1032)
BaselineAt(baseOffset, i, params) == gompertzModel(U(baseOffset + i), params.K, params.b, params.t0)

\* what the loop pushes for one scenario at step i (1034-1061)
MutScenarioFrom(baseOffset, i, params, ip, platformLaunch, baseline) ==
  IF ~isFinite(baseline) THEN 0
  ELSE applyIntervention(U(baseOffset + i), baseline, params, ip,
                         LaunchTime(baseOffset, platformLaunch))
ScenarioFrom(baseOffset, i, params, ip, platformLaunch, baseline) ==
  IF ~isFinite(baseline) THEN NaN
  ELSE applyIntervention(U(baseOffset + i), baseline, params, ip,
                         LaunchTime(baseOffset, platformLaunch))
ScenarioAt(baseOffset, i, params, ip, platformLaunch) ==
  ScenarioFrom(baseOffset, i, params, ip, platformLaunch, BaselineAt(baseOffset, i, params))

UncertaintyPercent(quality) ==
  LET dataQualityScore == IF quality = << >> THEN 100 ELSE quality[1].score
  IN  IF dataQualityScore >= 95 THEN 2 ELSE IF dataQualityScore >= 80 THEN 5 ELSE 8

\* array.slice(1) (1016): the empty array for the empty array
SliceFrom1(array) == IF array = << >> THEN << >> ELSE Tail(array)

Forecasts(data, params, sp, quality, forecastQuarters, platformLaunch) ==
  LET baseOffset == Len(data)
      lastPeriod == data[Len(data)].period
      Series(ip) == [k \in 1 .. forecastQuarters |->
                       ScenarioAt(baseOffset, k - 1, params, ip, platformLaunch)]
  IN  [periods |-> SliceFrom1(generateQuarters(lastPeriod, forecastQuarters + 1)),
       baseline |-> [k \in 1 .. forecastQuarters |->
                       LET b == BaselineAt(baseOffset, k - 1, params)
                       IN  IF isFinite(b) THEN b ELSE NaN],
       conservative |-> Series(sp.conservative),
       moderate |-> Series(sp.moderate),
       aggressive |-> Series(sp.aggressive),
       uncertaintyPercent |-> UncertaintyPercent(quality)]

\* generateForecasts; forecastYears and platformLaunch are the numbers read
\* from the two inputs.  With no fitted parameters, or no historical point, the
\* handler ends with a TypeError (1015, 1032) after line 1009.
GenerateForecasts(forecastYears, platformLaunch) ==
  /\ currentStep = 3
  /\ platformLaunchQuarter' = platformLaunch
  /\ LET forecastQuarters == forecastYears * 4
         threw == fittedParams = << >> \/ Len(historicalData) = 0
     IN  IF threw THEN UNCHANGED << currentStep, forecastData >>
         ELSE /\ forecastData' = << Forecasts(historicalData, fittedParams[1], scenarioParams,
                                              dataQuality, forecastQuarters, platformLaunch) >>
              /\ currentStep' = 4
  /\ UNCHANGED << historicalData, dataQuality, fittedParams, scenarioParams,
                  interpolationMethod, pendingFits, call >>

\* the click handler of resetAllBtn (1747-1755), the dialog confirmed
ResetAll ==
  /\ currentStep = 4
  /\ currentStep' = 1
  /\ historicalData' = << >>
  /\ fittedParams' = << >>
  /\ forecastData' = << >>
  /\ UNCHANGED << dataQuality, scenarioParams, platformLaunchQuarter, interpolationMethod,
                  pendingFits, call >>


Next ==
  \/ \E lines \in Batches : ParseAndDisplayData(lines)
  \/ ClearData
  \/ \E index \in Rows, value \in PromptValues : EditCell(index, value)
  \/ \E index \in Rows : ConfirmCell(index)
  \/ \E method \in Methods : ApplyInterpolation(method)
  \/ \E confirmLow \in BOOLEAN, confirmMissing \in BOOLEAN :
       ValidateAndProceed(confirmLow, confirmMissing)
  \/ FittingCallback
  \/ BackToStep1
  \/ ProceedToStep3
  \/ BackToStep2
  \/ \E move \in SliderMoves : SliderInput(move[1], move[2], move[3])
  \/ \E scenario \in Scenarios : LoadScenarioPreset(scenario)
  \/ \E forecastYears \in ForecastYears, platformLaunch \in PlatformLaunches :
       GenerateForecasts(forecastYears, platformLaunch)
  \/ BackToStep3
  \/ ResetAll

Spec == Init /\ [][Next]_vars

(***************************************************************************)
(* fitGompertzCurve called directly, on every series of at most FitLen     *)
(* values drawn from FitValues.                                            *)
(***************************************************************************)
FitLen == 3
FitValues == { 0, U(2), U(5), PosInf }

RECURSIVE SeqsUpTo(_, _)
SeqsUpTo(S, n) ==
  IF n = 0 THEN { << >> }
  ELSE SeqsUpTo(S, n - 1) \cup { Append(q, v) : q \in SeqsUpTo(S, n - 1), v \in S }

\* two series of 0.1, for which candidates of the grid have the same error
TiedSeries == { << Scale \div 10 >>, << Scale \div 10, Scale \div 10 >> }
FitInputs == SeqsUpTo(FitValues, FitLen) \cup TiedSeries

InitFit ==
  /\ currentStep = 1
  /\ historicalData = << >>
  /\ dataQuality = << >>
  /\ fittedParams = << >>
  /\ forecastData = << >>
  /\ scenarioParams = Presets
  /\ platformLaunchQuarter = 1
  /\ interpolationMethod = "ignore"
  /\ pendingFits = 0
  /\ call \in { [fn |-> "input", data |-> data] : data \in FitInputs }

FitCall ==
  /\ call.fn = "input"
  /\ call' = [fn |-> "fitGompertzCurve", data |-> call.data,
              result |-> fitGompertzCurve(call.data)]
  /\ UNCHANGED appVars

NextFit == FitCall

SpecFit == InitFit /\ [][NextFit]_vars

(***************************************************************************)
(* applyIntervention called directly, and one pass of the loop of          *)
(* generateForecasts (1030-1062) for one scenario.  Times run over the     *)
(* MaxHorizon quarters after a history of eight, launches over the first   *)
(* MaxLaunch of them.  generateForecasts is the only caller: its t is       *)
(* baseOffset + i and it calls with a baseline only after isFinite(baseline)*)
(* (1033-1041), and state.fittedParams comes from a fit, which returns      *)
(* finite parameters or null (222-226).                                     *)
(***************************************************************************)
MaxHorizon == 4
MaxLaunch == 3
HistoryLength == 8

InterventionTimes == { U(HistoryLength + k) : k \in 0 .. MaxHorizon }
BaselineValues == { 0, U(5), U(20) }
\* a fit of a growing series and the fit of a series of zeros
FittedChoices ==
  { [K |-> U(24), b |-> 3000, t0 |-> U(4)],
    [K |-> 0, b |-> 2000, t0 |-> U(4)] }
ScenarioChoices ==
  { Presets.moderate,
    [Presets.moderate EXCEPT !.half_life = 0],
    [Presets.moderate EXCEPT !.expansion_length = 0],
    [Presets.moderate EXCEPT !.window_length = 0],
    [Presets.moderate EXCEPT !.alpha = NaN],
    [Presets.moderate EXCEPT !.alpha = PosInf],
    [Presets.moderate EXCEPT !.alpha = 5000],
    [Presets.moderate EXCEPT !.alpha = 8000],
    [Presets.moderate EXCEPT !.kappa = 2000],
    [Presets.moderate EXCEPT !.kappa = 3000],
    [Presets.moderate EXCEPT !.kappa = PosInf],
    [Presets.moderate EXCEPT !.kappa = NaN],
    [Presets.moderate EXCEPT !.kappa = NegInf],
    [Presets.moderate EXCEPT !.kappa = U(0 - 2)],
    [Presets.moderate EXCEPT !.delta_t = NaN],
    [Presets.moderate EXCEPT !.delta_t = PosInf] }
LaunchTimes == { U(HistoryLength + k) : k \in 1 .. MaxLaunch }

InterventionInputs ==
  { [fn |-> "interventionInput", t |-> t, baselineValue |-> v, params |-> p,
     interventionParams |-> ip, launchQuarter |-> l] :
      t \in InterventionTimes, v \in BaselineValues, p \in FittedChoices,
      ip \in ScenarioChoices, l \in LaunchTimes }
ForecastInputs ==
  { [fn |-> "forecastInput", baseOffset |-> HistoryLength, i |-> i, params |-> p,
     interventionParams |-> ip, platformLaunch |-> l] :
      i \in 0 .. MaxHorizon, p \in FittedChoices,
      ip \in { Presets.conservative, Presets.moderate, Presets.aggressive },
      l \in 1 .. MaxLaunch }

InitIntervention ==
  /\ currentStep = 1
  /\ historicalData = << >>
  /\ dataQuality = << >>
  /\ fittedParams = << >>
  /\ forecastData = << >>
  /\ scenarioParams = Presets
  /\ platformLaunchQuarter = 1
  /\ interpolationMethod = "ignore"
  /\ pendingFits = 0
  /\ call \in InterventionInputs \cup ForecastInputs

\* the two objects handed to applyIntervention as it leaves them: lines 275-363
\* read their fields (282-283) and assign to none
ArgumentsAfter(params, interventionParams) ==
  [params |-> params, interventionParams |-> interventionParams]

InterventionCall ==
  /\ call.fn = "interventionInput"
  /\ call' = [fn |-> "applyIntervention", t |-> call.t, baselineValue |-> call.baselineValue,
              params |-> call.params, interventionParams |-> call.interventionParams,
              launchQuarter |-> call.launchQuarter,
              result |-> applyInterventionTrace(call.t, call.baselineValue, call.params,
                                                call.interventionParams, call.launchQuarter),
              after |-> ArgumentsAfter(call.params, call.interventionParams)]
  /\ UNCHANGED appVars

\* the return statement of applyIntervention behind the value pushed at step i;
\* "none" when the baseline is not finite and applyIntervention is not called
ScenarioPathAt(baseOffset, i, params, ip, platformLaunch) ==
  IF ~isFinite(BaselineAt(baseOffset, i, params)) THEN "none"
  ELSE applyInterventionTrace(U(baseOffset + i), BaselineAt(baseOffset, i, params), params, ip,
                              LaunchTime(baseOffset, platformLaunch)).path

ForecastStep ==
  /\ call.fn = "forecastInput"
  /\ call' = [fn |-> "forecastStep", baseOffset |-> call.baseOffset, i |-> call.i,
              platformLaunch |-> call.platformLaunch,
              launchQuarter |-> LaunchTime(call.baseOffset, call.platformLaunch),
              baseline |-> BaselineAt(call.baseOffset, call.i, call.params),
              value |-> ScenarioAt(call.baseOffset, call.i, call.params,
                                   call.interventionParams, call.platformLaunch),
              path |-> ScenarioPathAt(call.baseOffset, call.i, call.params,
                                      call.interventionParams, call.platformLaunch)]
  /\ UNCHANGED appVars

NextIntervention == InterventionCall \/ ForecastStep

SpecIntervention == InitIntervention /\ [][NextIntervention]_vars

(***************************************************************************)
(* analyzeDataQuality called twice in a row on a series of at most         *)
(* MaxPoints quarters, of one of five shapes, whose last points are        *)
(* missing.                                                                *)
(***************************************************************************)
MaxPoints == 13
Shapes == { "growth", "flat", "dips", "spike", "decline" }

\* the value of quarter i: growth 1, 2, 3, ..; flat 5, 5, ..; dips 1, 0, 3, 2,
\* 5, 4, ..; spike as growth but 60 in the third quarter; decline 20, 19, ..
ShapeValue(shape, i) ==
  IF shape = "flat" THEN U(5)
  ELSE IF shape = "dips" THEN (IF i % 2 = 0 THEN U(i - 2) ELSE U(i))
  ELSE IF shape = "spike" /\ i = 3 THEN U(60)
  ELSE IF shape = "decline" THEN U(21 - i)
  ELSE U(i)

\* a parsed series of n quarters whose last m are missing
QualitySeries(shape, n, m) ==
  [i \in 1 .. n |->
     [period |-> PeriodAt(i),
      accounts |-> IF i > n - m THEN Null ELSE ShapeValue(shape, i),
      isMissing |-> i > n - m,
      dataType |-> IF i > n - m THEN "Missing" ELSE "Original",
      isOutlier |-> FALSE]]

QualityInputs ==
  { [fn |-> "qualityInput", data |-> QualitySeries(c[1], c[2], c[3])] :
      c \in { d \in Shapes \X (0 .. MaxPoints) \X (0 .. MaxPoints) : d[3] <= d[2] } }

InitQuality ==
  /\ currentStep = 1
  /\ historicalData = << >>
  /\ dataQuality = << >>
  /\ fittedParams = << >>
  /\ forecastData = << >>
  /\ scenarioParams = Presets
  /\ platformLaunchQuarter = 1
  /\ interpolationMethod = "ignore"
  /\ pendingFits = 0
  /\ call \in QualityInputs

\* two calls in a row: the second reads the flags the first has written
TwoAnalyses(data, once) ==
  [fn |-> "analyzeDataQuality", data |-> data, once |-> once,
   twice |-> analyzeDataQuality(once.data)]

QualityCall ==
  /\ call.fn = "qualityInput"
  /\ call' = TwoAnalyses(call.data, analyzeDataQuality(call.data))
  /\ UNCHANGED appVars

NextQuality == QualityCall

SpecQuality == InitQuality /\ [][NextQuality]_vars

(***************************************************************************)
(* The interpolation methods called directly, and applyInterpolation on a  *)
(* series: every series of at most MaxSeries quarters with values drawn    *)
(* from SeriesValues, and a few series long enough for the preliminary fit *)
(* of gompertzInterpolation.  applyInterpolation is the only caller of the *)
(* three methods and calls them at missing positions (1541, 1554).         *)
(***************************************************************************)
MaxSeries == 3
SeriesValues == { Null, U(10), U(30), PosInf }

\* the point parseAndDisplayData makes of quarter i (433); v is Null for a
\* missing marker
PointOf(i, v) ==
  [period |-> PeriodAt(i), accounts |-> v, isMissing |-> v = Null,
   dataType |-> IF v = Null THEN "Missing" ELSE "Original", isOutlier |-> FALSE]
SeriesOf(values) == [i \in 1 .. Len(values) |-> PointOf(i, values[i])]

ShortSeries == { SeriesOf(values) : values \in SeqsUpTo(SeriesValues, MaxSeries) }

\* eight valid quarters of growth around one gap; seven around a gap of two;
\* eight quarters of 0 around a gap; a quarter of Infinity after the gap;
\* growth with the first and the last quarter missing; a gap next to Infinity
LongSeries ==
  { SeriesOf(<< U(1), U(2), U(4), U(7), Null, U(10), U(13), U(15), U(16) >>),
    SeriesOf(<< U(1), U(2), U(4), Null, Null, U(10), U(13), U(15), U(16) >>),
    SeriesOf(<< 0, 0, 0, 0, Null, 0, 0, 0, 0 >>),
    SeriesOf(<< U(1), U(2), U(4), U(7), Null, U(10), U(13), U(15), PosInf >>),
    SeriesOf(<< Null, U(1), U(2), U(4), U(7), U(10), U(13), U(15), U(16), Null >>),
    SeriesOf(<< Null, U(10), Null, PosInf >>) }

MissingIndices(data) == { i \in 1 .. Len(data) : data[i].isMissing }
AllMethods == { "ignore", "linear", "gompertz", "forward" }

InterpolationInputs ==
  { [fn |-> f, data |-> d, index |-> i] :
      f \in { "linearInput", "forwardInput" },
      d \in ShortSeries \cup LongSeries, i \in 1 .. 10 }
  \cup { [fn |-> "gompertzInput", data |-> d, index |-> i] :
           d \in LongSeries, i \in 1 .. 10 }
  \cup { [fn |-> "applyInput", data |-> d, index |-> 0, method |-> m] :
           d \in ShortSeries \cup LongSeries, m \in AllMethods }

InitInterpolation ==
  /\ currentStep = 1
  /\ historicalData = << >>
  /\ dataQuality = << >>
  /\ fittedParams = << >>
  /\ forecastData = << >>
  /\ scenarioParams = Presets
  /\ platformLaunchQuarter = 1
  /\ interpolationMethod = "ignore"
  /\ pendingFits = 0
  /\ call \in { c \in InterpolationInputs :
                  c.fn = "applyInput" \/ c.index \in MissingIndices(c.data) }

LinearCall ==
  /\ call.fn = "linearInput"
  /\ call' = [fn |-> "linearInterpolation", data |-> call.data, index |-> call.index,
              result |-> linearInterpolation(call.data, call.index)]
  /\ UNCHANGED appVars

ForwardCall ==
  /\ call.fn = "forwardInput"
  /\ call' = [fn |-> "forwardFill", data |-> call.data, index |-> call.index,
              result |-> forwardFill(call.data, call.index)]
  /\ UNCHANGED appVars

GompertzCall ==
  /\ call.fn = "gompertzInput"
  /\ call' = [fn |-> "gompertzInterpolation", data |-> call.data, index |-> call.index,
              result |-> gompertzInterpolation(call.data, call.index)]
  /\ UNCHANGED appVars

\* state.historicalData after applyInterpolation (1536-1603): as it was after
\* the two early returns (1543-1551), and otherwise filled and analysed twice
\* (1573, 1581)
AfterInterpolation(data, method) ==
  IF CountMissing(data, 1) = 0 \/ method = "ignore" THEN data
  ELSE analyzeDataQuality(analyzeDataQuality(Interpolated(data, method)).data).data

ApplyCall ==
  /\ call.fn = "applyInput"
  /\ call' = [fn |-> "applyInterpolation", data |-> call.data, method |-> call.method,
              after |-> AfterInterpolation(call.data, call.method)]
  /\ UNCHANGED appVars

NextInterpolation == LinearCall \/ ForwardCall \/ GompertzCall \/ ApplyCall

SpecInterpolation == InitInterpolation /\ [][NextInterpolation]_vars

(***************************************************************************)
(* parseAndDisplayData on batches of each kind, between runs of            *)
(* validateAndProceed and of the fitting callback, so that a batch meets a *)
(* state that holds a series, a report and fitted parameters.              *)
(***************************************************************************)
EmptyStr == [kind |-> "empty", v |-> 0]
NullStr == [kind |-> "null", v |-> 0]
NaStr == [kind |-> "na", v |-> 0]
PrefixStr(v) == [kind |-> "prefix", v |-> v]

BlankLine == [blank |-> TRUE, parts |-> 1, period |-> NoLabel, accountsStr |-> EmptyStr]
FieldsLine(parts) == [blank |-> FALSE, parts |-> parts, period |-> NoLabel,
                      accountsStr |-> EmptyStr]
ValueLine(i, str) == [blank |-> FALSE, parts |-> 2, period |-> PeriodAt(i), accountsStr |-> str]

\* GapBatch with its fourth value replaced; with its first line replaced; with
\* a line put before it
WithFourth(str) == [GapBatch EXCEPT ![4] = ValueLine(4, str)]
WithFirst(line) == [GapBatch EXCEPT ![1] = line]
WithLineBefore(lines, line) == << line >> \o lines

ParseBatches ==
  { GapBatch, ZeroBatch, ShortBatch,
    WithFourth(EmptyStr), WithFourth(NullStr), WithFourth(NaStr),
    WithFourth(NumberStr(0 - U(3))), WithFourth(TextStr),
    WithFourth(PrefixStr(U(7))), WithFourth(InfinityStr),
    WithFirst(FieldsLine(1)), WithFirst(FieldsLine(3)),
    WithLineBefore(GapBatch, BlankLine), WithLineBefore(ShortBatch, BlankLine) }

\* the end of the try block (440-445) and the catch block (449-452)
MutCommitParse(r) ==
  IF r.ok THEN Analyzed(r.data)
  ELSE /\ historicalData' = << >>
       /\ UNCHANGED dataQuality
CommitParse(r) ==
  IF r.ok THEN Analyzed(r.data)
  ELSE UNCHANGED << historicalData, dataQuality >>

\* parseAndDisplayData (398-453) on the lines of the text area; accepted says
\* that the try block ended without a throw
ParseCall(lines) ==
  /\ currentStep = 1
  /\ CommitParse(ParseResult(lines))
  /\ call' = [fn |-> "parseAndDisplayData", lines |-> lines,
              accepted |-> ParseResult(lines).ok]
  /\ UNCHANGED << currentStep, fittedParams, forecastData, scenarioParams,
                  platformLaunchQuarter, interpolationMethod, pendingFits >>

NextParse ==
  \/ \E lines \in ParseBatches : ParseCall(lines)
  \/ \E confirmLow \in BOOLEAN, confirmMissing \in BOOLEAN :
       ValidateAndProceed(confirmLow, confirmMissing)
  \/ FittingCallback
  \/ BackToStep1

SpecParse == Init /\ [][NextParse]_vars

(***************************************************************************)
(* gompertzModel called directly: t over the quarters from -2 to           *)
(* MaxModelTime, and K, b and t0 over finite values of either sign, zero   *)
(* and the three values that are not finite.                               *)
(***************************************************************************)
MaxModelTime == 12
ModelTimes == { U(k) : k \in (0 - 2) .. MaxModelTime }
ModelCapacities == { NaN, PosInf, NegInf, 0 - U(5), 0, 1, U(24), U(1000) }
ModelRates == { NaN, PosInf, NegInf, 0 - 3000, 0, 1, 3000, U(1), U(100) }
ModelMidpoints == { NaN, PosInf, NegInf, 0 - U(2), 0, U(4), U(50) }

ModelInputs ==
  { [fn |-> "modelInput", t |-> t, K |-> K, b |-> b, t0 |-> t0] :
      t \in ModelTimes, K \in ModelCapacities, b \in ModelRates, t0 \in ModelMidpoints }

InitModel ==
  /\ currentStep = 1
  /\ historicalData = << >>
  /\ dataQuality = << >>
  /\ fittedParams = << >>
  /\ forecastData = << >>
  /\ scenarioParams = Presets
  /\ platformLaunchQuarter = 1
  /\ interpolationMethod = "ignore"
  /\ pendingFits = 0
  /\ call \in ModelInputs

ModelCall ==
  /\ call.fn = "modelInput"
  /\ call' = [fn |-> "gompertzModel", t |-> call.t, K |-> call.K, b |-> call.b,
              t0 |-> call.t0, result |-> gompertzModel(call.t, call.K, call.b, call.t0)]
  /\ UNCHANGED appVars

NextModel == ModelCall

SpecModel == InitModel /\ [][NextModel]_vars

(***************************************************************************)
(* The time index from the fit to the forecast: the wizard from the paste  *)
(* to generateForecasts, where the fitting callback records the number of  *)
(* indices 0 .. n-1 it fitted over and generateForecasts the time index of *)
(* its first step.                                                         *)
(***************************************************************************)
\* the callback of performFitting (773-786): fitGompertzCurve loops over the
\* indices of the non-missing values (129, 171, 225)
PerformFittingCall ==
  /\ pendingFits > 0
  /\ pendingFits' = pendingFits - 1
  /\ LET accounts == ValidAccounts(historicalData)
         result == FitOf(accounts)
     IN  /\ StoreFit(result)
         /\ IF result.isNull THEN UNCHANGED call
            ELSE call' = [fn |-> "performFitting", fitted |-> Len(accounts)]
  /\ UNCHANGED << currentStep, historicalData, dataQuality, forecastData, scenarioParams,
                  platformLaunchQuarter, interpolationMethod >>

\* generateForecasts (1004-1084): t = baseOffset + i at i = 0 (1018, 1031)
GenerateForecastsCall(forecastYears, platformLaunch) ==
  /\ currentStep = 3
  /\ platformLaunchQuarter' = platformLaunch
  /\ LET forecastQuarters == forecastYears * 4
         baseOffset == Len(historicalData)
         threw == fittedParams = << >> \/ Len(historicalData) = 0
     IN  IF threw THEN UNCHANGED << currentStep, forecastData, call >>
         ELSE /\ forecastData' = << Forecasts(historicalData, fittedParams[1], scenarioParams,
                                              dataQuality, forecastQuarters, platformLaunch) >>
              /\ currentStep' = 4
              /\ call' = [fn |-> "generateForecasts", fitted |-> call.fitted,
                          first |-> baseOffset + 0, forecastQuarters |-> forecastQuarters]
  /\ UNCHANGED << historicalData, dataQuality, fittedParams, scenarioParams,
                  interpolationMethod, pendingFits >>

\* GapBatch with a last period label that the pattern of parseQuarter (40)
\* does not match, such as 2022Q1
PlainLabelBatch == [GapBatch EXCEPT ![9].period = NoLabel]
TimeBatches == Batches \cup { PlainLabelBatch }

NextTime ==
  \/ \E lines \in TimeBatches : ParseAndDisplayData(lines)
  \/ \E index \in Rows, value \in PromptValues : EditCell(index, value)
  \/ \E method \in Methods : ApplyInterpolation(method)
  \/ \E confirmLow \in BOOLEAN, confirmMissing \in BOOLEAN :
       ValidateAndProceed(confirmLow, confirmMissing)
  \/ PerformFittingCall
  \/ BackToStep1
  \/ ProceedToStep3
  \/ BackToStep2
  \/ \E forecastYears \in ForecastYears, platformLaunch \in PlatformLaunches :
       GenerateForecastsCall(forecastYears, platformLaunch)
  \/ BackToStep3

SpecTime == Init /\ [][NextTime]_vars

(***************************************************************************)
(* Properties.                                                             *)
(***************************************************************************)

\* C1: whenever fitGompertzCurve returns a result for a non-empty series of
\* non-negative finite numbers, result.params.K is strictly greater than the
\* maximum of the series, a maximum of 0 included.
C1_KAboveMax ==
  (/\ call.fn = "fitGompertzCurve"
   /\ Len(call.data) > 0
   /\ \A i \in 1 .. Len(call.data) : isFinite(call.data[i]) /\ call.data[i] >= 0
   /\ ~call.result.isNull)
  => Gt(call.result.params.K, MathMaxOf(call.data))

\* C2: once a report is stored, state.dataQuality has the score, missingCount,
\* validCount and totalCount that analyzeDataQuality computes from the current
\* state.historicalData, whatever handlers have run.
C2_QualityIsCurrent ==
  dataQuality # << >> =>
    LET report == analyzeDataQuality(historicalData).report
    IN  /\ dataQuality[1].score = report.score
        /\ dataQuality[1].missingCount = report.missingCount
        /\ dataQuality[1].validCount = report.validCount
        /\ dataQuality[1].totalCount = report.totalCount

\* C3: every run of generateForecasts (the only handler that leaves step 3 for
\* step 4 or changes platformLaunchQuarter) finds state.fittedParams non-null
\* and equal to the parameters of a successful fit of the non-missing values
\* of the current state.historicalData.
C3_ForecastFromCurrentFit ==
  [][(currentStep = 3 /\ (currentStep' = 4 \/ platformLaunchQuarter' # platformLaunchQuarter))
     => (/\ fittedParams # << >>
         /\ ~FitOf(ValidAccounts(historicalData)).isNull
         /\ fittedParams[1] = FitOf(ValidAccounts(historicalData)).params)]_vars

\* C4: every call of applyIntervention returns a finite value, whatever the
\* scenario parameters: when a factor, an adjusted parameter or the model's
\* result is not finite the value returned is baselineValue.
C4_AlwaysFinite ==
  call.fn = "applyIntervention" =>
    /\ isFinite(call.result.value)
    /\ call.result.path # "model" => call.result.value = call.baselineValue

\* C4: a call after the launch with alpha = NaN, where the acceleration
\* factor is NaN
C4_Witness ==
  /\ call.fn = "applyIntervention"
  /\ isNaN(call.interventionParams.alpha)
  /\ Ge(call.t, call.launchQuarter)
  /\ call.result.path = "invalidFactors"
  /\ call.result.value = call.baselineValue

\* C5: a call of applyIntervention with t < launchQuarter returns exactly
\* baselineValue and leaves the fitted and the scenario parameters handed to
\* it, and the state, as they were.
C5_BeforeLaunchIsBaseline ==
  (call.fn = "applyIntervention" /\ Lt(call.t, call.launchQuarter)) =>
    /\ call.result.value = call.baselineValue
    /\ call.after.params = call.params
    /\ call.after.interventionParams = call.interventionParams
    /\ scenarioParams = Presets
    /\ fittedParams = << >>

\* C5: a call before the launch with finite inputs, which only the guard on t
\* stops
C5_Witness ==
  /\ call.fn = "applyIntervention"
  /\ Lt(call.t, call.launchQuarter)
  /\ call.result.path = "beforeLaunch"
  /\ call.interventionParams = Presets.moderate

\* C6: with launch offset L and a history of H quarters, the loop of
\* generateForecasts uses launch time H + L, every forecast index below L - 1
\* holds the baseline value, and index L - 1 and the later ones are computed
\* through the intervention model.
C6_LaunchPeriodIsFirst ==
  (call.fn = "forecastStep" /\ isFinite(call.baseline)) =>
    /\ call.launchQuarter = U(call.baseOffset + call.platformLaunch)
    /\ call.i < call.platformLaunch - 1 =>
         (call.path = "beforeLaunch" /\ call.value = call.baseline)
    /\ call.i >= call.platformLaunch - 1 => call.path # "beforeLaunch"

\* C7: at each step of a forecast bundle, a baseline that is not finite comes
\* with NaN in baseline, conservative, moderate and aggressive, and a finite
\* baseline comes with three finite scenario values.
C7_ScenariosAsDefinedAsBaseline ==
  forecastData # << >> =>
    \A k \in 1 .. Len(forecastData[1].baseline) :
      /\ ~isFinite(forecastData[1].baseline[k]) =>
           /\ isNaN(forecastData[1].baseline[k])
           /\ isNaN(forecastData[1].conservative[k])
           /\ isNaN(forecastData[1].moderate[k])
           /\ isNaN(forecastData[1].aggressive[k])
      /\ isFinite(forecastData[1].baseline[k]) =>
           /\ isFinite(forecastData[1].conservative[k])
           /\ isFinite(forecastData[1].moderate[k])
           /\ isFinite(forecastData[1].aggressive[k])

\* C7: a bundle made from the fit of a series of zeros, whose baseline is NaN
C7_Witness ==
  /\ forecastData # << >>
  /\ Len(forecastData[1].baseline) > 0
  /\ isNaN(forecastData[1].baseline[1])
  /\ isNaN(forecastData[1].aggressive[1])

\* C8: a second call of analyzeDataQuality on an unchanged series gives the
\* report of the first call and leaves every isOutlier flag as the first call
\* left it.
C8_AnalysisIdempotent ==
  call.fn = "analyzeDataQuality" =>
    /\ call.twice.report = call.once.report
    /\ \A i \in 1 .. Len(call.data) :
         call.twice.data[i].isOutlier = call.once.data[i].isOutlier

\* C8: two calls on a series in which the first call flags an outlier
C8_Witness ==
  /\ call.fn = "analyzeDataQuality"
  /\ \E i \in 1 .. Len(call.data) : call.once.data[i].isOutlier
  /\ call.once.report.score < 100

\* C9: the score is the integer clamp(100 - M - 5 * outliers - 5 * nonMonotonic
\* - S, 0, 100), M being 0, 10 per point, 30 or 50 for 0, 1-2, 3-5 or more
\* missing points and S being 40, 10 or 0 for fewer than 8, 8-11 or more valid
\* points; a complete non-decreasing series of at least 12 points without
\* outliers scores 100 with the one issue for completeness.
C9_ScoreFormula ==
  call.fn = "analyzeDataQuality" =>
    LET data == call.data
        report == call.once.report
        valid == { i \in 1 .. Len(data) : ~data[i].isMissing }
        missing == Len(data) - Cardinality(valid)
        M == IF missing = 0 THEN 0
             ELSE IF missing <= 2 THEN 10 * missing
             ELSE IF missing <= 5 THEN 30
             ELSE 50
        S == IF Cardinality(valid) < 8 THEN 40
             ELSE IF Cardinality(valid) <= 11 THEN 10
             ELSE 0
        smaller == { i \in valid :
                       \E j \in valid :
                         /\ j < i
                         /\ \A l \in valid : ~(j < l /\ l < i)
                         /\ data[i].accounts < data[j].accounts }
        outliers == Cardinality(OutlierIndices(data))
        raw == 100 - M - 5 * outliers - 5 * Cardinality(smaller) - S
    IN  /\ report.score \in 0 .. 100
        /\ report.score = IF raw < 0 THEN 0 ELSE IF raw > 100 THEN 100 ELSE raw
        /\ report.missingCount = missing
        /\ (missing = 0 /\ Cardinality(smaller) = 0 /\ outliers = 0 /\ Len(data) >= 12) =>
             (/\ report.score = 100
              /\ Len(report.issues) = 1
              /\ report.issues[1].kind = "complete")

\* C9: a series in which all four deductions apply
C9_Witness ==
  /\ call.fn = "analyzeDataQuality"
  /\ call.once.report.missingCount = 2
  /\ call.once.report.validCount = 11
  /\ Cardinality(OutlierIndices(call.data)) = 1
  /\ NonMonotonicCount(call.data) = 1
  /\ call.once.report.score = 60

\* C10: a series that differs from the analysed one only by more missing
\* points, with the same number of outliers, the same number of non-monotonic
\* points and the same deduction for the sample size, never scores higher.
C10_MoreMissingNeverHigher ==
  call.fn = "analyzeDataQuality" =>
    \A k \in 0 .. Len(call.data) :
      LET other == [i \in 1 .. Len(call.data) |->
                      IF i > Len(call.data) - k
                      THEN [call.data[i] EXCEPT !.accounts = Null, !.isMissing = TRUE,
                                                !.dataType = "Missing"]
                      ELSE call.data[i]]
          report == analyzeDataQuality(other).report
      IN  (/\ report.missingCount > call.once.report.missingCount
           /\ Cardinality(OutlierIndices(other)) = Cardinality(OutlierIndices(call.data))
           /\ NonMonotonicCount(other) = NonMonotonicCount(call.data)
           /\ SampleDeduction(report.validCount) = SampleDeduction(call.once.report.validCount))
          => report.score <= call.once.report.score

\* C10: a series with two missing points against the same series with three,
\* nothing else differing, the second scoring lower
C10_Witness ==
  /\ call.fn = "analyzeDataQuality"
  /\ call.once.report.missingCount = 2
  /\ Len(call.data) >= 3
  /\ LET other == [call.data EXCEPT ![Len(call.data) - 2] =
                     [@ EXCEPT !.accounts = Null, !.isMissing = TRUE, !.dataType = "Missing"]]
         report == analyzeDataQuality(other).report
     IN  /\ report.missingCount = 3
         /\ Cardinality(OutlierIndices(other)) = Cardinality(OutlierIndices(call.data))
         /\ NonMonotonicCount(other) = NonMonotonicCount(call.data)
         /\ SampleDeduction(report.validCount) = SampleDeduction(call.once.report.validCount)
         /\ report.score < call.once.report.score

\* C11: after every handler of step 1 and the analysis it triggers, a point
\* of state.historicalData has isOutlier true exactly when it is not missing,
\* at least 5 points are not missing, and its z-score over the current
\* non-missing values is above 2.
C11_FlagsAreCurrent ==
  \A i \in 1 .. Len(historicalData) :
    historicalData[i].isOutlier <=> i \in OutlierIndices(historicalData)

\* C12: linearInterpolation(series, i) is prev + (next - prev) * (i - iPrev) /
\* (iNext - iPrev), to the resolution of the arithmetic, when the nearest
\* non-missing predecessor iPrev and successor iNext both exist, the value of
\* the one that exists when only one does, and null when none does; for
\* [10, missing, 30] at the missing index it is exactly 20.
C12_LinearBetweenNeighbours ==
  call.fn = "linearInterpolation" =>
    LET data == call.data
        i == call.index
        before == { j \in 1 .. i - 1 : ~data[j].isMissing }
        after == { j \in i + 1 .. Len(data) : ~data[j].isMissing }
        iPrev == CHOOSE j \in before : \A k \in before : k <= j
        iNext == CHOOSE j \in after : \A k \in after : j <= k
        prev == data[iPrev].accounts
        next == data[iNext].accounts
    IN  /\ (before # {} /\ after # {} /\ isFinite(prev) /\ isFinite(next)) =>
             /\ isFinite(call.result)
             /\ Abs(call.result * (iNext - iPrev)
                    - (prev * (iNext - iPrev) + (next - prev) * (i - iPrev)))
                  <= (iNext - iPrev) * (Abs(next - prev) \div Scale + 1)
             /\ (2 * (i - iPrev) = iNext - iPrev /\ (next - prev) % 2 = 0) =>
                  call.result = prev + (next - prev) \div 2
        /\ (before # {} /\ after # {} /\ ~(isFinite(prev) /\ isFinite(next))) =>
             ~isFinite(call.result)
        /\ (before # {} /\ after = {}) => call.result = prev
        /\ (before = {} /\ after # {}) => call.result = next
        /\ (before = {} /\ after = {}) => call.result = Null
        /\ (Len(data) = 3 /\ i = 2 /\ before # {} /\ after # {}
            /\ prev = U(10) /\ next = U(30)) => call.result = U(20)

\* C12: the call on [10, missing, 30] at the missing index, which returns 20
C12_Witness ==
  /\ call.fn = "linearInterpolation"
  /\ Len(call.data) = 3
  /\ call.index = 2
  /\ call.data[1].accounts = U(10)
  /\ call.data[2].isMissing
  /\ call.data[3].accounts = U(30)
  /\ call.result = U(20)

\* C13: forwardFill(series, i) is the value of the nearest non-missing
\* predecessor of i, else that of the nearest non-missing successor, else
\* null; applyInterpolation with method forward on [10, missing, missing]
\* leaves 10 in both slots that were missing.
C13_ForwardFill ==
  /\ call.fn = "forwardFill" =>
       LET data == call.data
           before == { j \in 1 .. call.index - 1 : ~data[j].isMissing }
           after == { j \in call.index + 1 .. Len(data) : ~data[j].isMissing }
       IN  /\ before # {} =>
                call.result = data[CHOOSE j \in before : \A k \in before : k <= j].accounts
           /\ (before = {} /\ after # {}) =>
                call.result = data[CHOOSE j \in after : \A k \in after : j <= k].accounts
           /\ (before = {} /\ after = {}) => call.result = Null
  /\ (/\ call.fn = "applyInterpolation"
      /\ call.method = "forward"
      /\ Len(call.data) = 3
      /\ call.data[1].accounts = U(10)
      /\ call.data[2].isMissing
      /\ call.data[3].isMissing) =>
       /\ call.after[2].accounts = U(10) /\ ~call.after[2].isMissing
       /\ call.after[3].accounts = U(10) /\ ~call.after[3].isMissing

\* C13: applyInterpolation with method forward on [10, missing, missing]
C13_Witness ==
  /\ call.fn = "applyInterpolation"
  /\ call.method = "forward"
  /\ Len(call.data) = 3
  /\ call.data[1].accounts = U(10)
  /\ call.data[2].isMissing
  /\ call.data[3].isMissing
  /\ call.after[2].accounts = U(10)
  /\ call.after[3].accounts = U(10)

\* C14: gompertzInterpolation(series, i) is linearInterpolation(series, i)
\* when fewer than 8 points are non-missing, when fitGompertzCurve on the
\* non-missing values returns null or a result with valid false, or when the
\* model value at i is not finite; otherwise it is the model value at i.
C14_GompertzFallsBackToLinear ==
  call.fn = "gompertzInterpolation" =>
    LET data == call.data
        valid == { j \in 1 .. Len(data) : ~data[j].isMissing }
        fit == fitGompertzCurve(ValidAccounts(data))
        value == gompertzModel(U(call.index - 1), fit.params.K, fit.params.b, fit.params.t0)
    IN  IF Cardinality(valid) < 8 THEN call.result = linearInterpolation(data, call.index)
        ELSE IF fit.isNull \/ ~fit.valid THEN call.result = linearInterpolation(data, call.index)
        ELSE IF ~isFinite(value) THEN call.result = linearInterpolation(data, call.index)
        ELSE call.result = value

\* C14: a call on a series with seven non-missing points, which a fit would
\* estimate otherwise than the line between the neighbours does
C14_Witness ==
  /\ call.fn = "gompertzInterpolation"
  /\ Cardinality({ j \in 1 .. Len(call.data) : ~call.data[j].isMissing }) = 7
  /\ call.result = linearInterpolation(call.data, call.index)
  /\ LET fit == fitGompertzCurve(ValidAccounts(call.data))
     IN  /\ ~fit.isNull
         /\ fit.valid
         /\ call.result # gompertzModel(U(call.index - 1), fit.params.K, fit.params.b,
                                         fit.params.t0)

\* C15: applyInterpolation changes a point only if it was missing and the
\* method returned a finite non-null value for it, on the series as the
\* earlier fills left it: such a point gets that value, isMissing false and
\* the classification Interpolated; a point that was not missing keeps its
\* value and its classification, a missing point for which the method
\* returned null or a value that is not finite stays missing, and with the
\* method ignore the series is unchanged.
C15_OnlyMissingPointsFilled ==
  call.fn = "applyInterpolation" =>
    LET data == call.data
        after == call.after
        \* the series when the forEach reaches index i
        reached(i) == [j \in 1 .. Len(data) |->
                         IF j >= i /\ data[j].isMissing THEN data[j] ELSE after[j]]
        value(i) == InterpolatedValue(reached(i), call.method, i)
    IN  /\ Len(after) = Len(data)
        /\ call.method = "ignore" => after = data
        /\ \A i \in 1 .. Len(data) :
             /\ after[i].period = data[i].period
             /\ ~data[i].isMissing =>
                  /\ after[i].accounts = data[i].accounts
                  /\ after[i].dataType = data[i].dataType
                  /\ ~after[i].isMissing
             /\ (data[i].isMissing /\ call.method # "ignore") =>
                  IF value(i) # Null /\ isFinite(value(i))
                  THEN /\ after[i].accounts = value(i)
                       /\ ~after[i].isMissing
                       /\ after[i].dataType = "Interpolated"
                  ELSE /\ after[i].isMissing
                       /\ after[i].accounts = Null
                       /\ after[i].dataType = "Missing"

\* C15: linear interpolation of [missing, 10, missing, Infinity]: the first
\* point is filled with 10, the third, between 10 and Infinity, stays missing
C15_Witness ==
  /\ call.fn = "applyInterpolation"
  /\ call.method = "linear"
  /\ Len(call.data) = 4
  /\ call.data[1].isMissing /\ call.data[3].isMissing
  /\ call.data[4].accounts = PosInf
  /\ call.after[1].accounts = U(10) /\ call.after[1].dataType = "Interpolated"
  /\ call.after[3].isMissing
  /\ call.after[2].dataType = "Original"

\* C16: parseAndDisplayData accepts a batch only if every non-blank row has
\* exactly two fields, every value is a missing marker or a non-negative
\* decimal number, and at least 8 rows remain.
C16_AcceptsOnlyWellFormed ==
  (call.fn = "parseAndDisplayData" /\ call.accepted) =>
    LET rows == { i \in 1 .. Len(call.lines) : ~call.lines[i].blank }
    IN  /\ Cardinality(rows) >= 8
        /\ \A i \in rows :
             /\ call.lines[i].parts = 2
             /\ \/ call.lines[i].accountsStr.kind \in { "empty", "dash", "null", "na" }
                \/ /\ call.lines[i].accountsStr.kind = "number"
                   /\ call.lines[i].accountsStr.v >= 0

\* C17: a call of parseAndDisplayData that rejects its input leaves
\* state.historicalData, state.dataQuality, state.fittedParams and
\* state.forecastData as they were.
C17_RejectedBatchCommitsNothing ==
  [][(call' # call /\ call'.fn = "parseAndDisplayData" /\ ~call'.accepted)
     => UNCHANGED << historicalData, dataQuality, fittedParams, forecastData >>]_vars

\* C17: a batch with a negative value, rejected after an earlier batch was
\* accepted: the state holds the series and the report of the earlier batch,
\* and fitted parameters
C17_Witness ==
  /\ call.fn = "parseAndDisplayData"
  /\ ~call.accepted
  /\ Len(call.lines) = 9
  /\ call.lines[4].accountsStr.kind = "number"
  /\ call.lines[4].accountsStr.v < 0
  /\ Len(historicalData) = 8
  /\ dataQuality # << >>
  /\ fittedParams # << >>

\* the period labels of a series, in order
Periods(data) == [i \in 1 .. Len(data) |-> data[i].period]

\* C18: a step that changes the length of state.historicalData, or the order
\* or the period labels of its points, is a parse, a clear or a reset:
\* editCell, confirmCell, applyInterpolation, analyzeDataQuality, the fitting
\* callback and generateForecasts leave them as they are.
C18_SeriesShapeKept ==
  [][Periods(historicalData') # Periods(historicalData)
     => \/ \E lines \in Batches : ParseAndDisplayData(lines)
        \/ ClearData
        \/ ResetAll]_vars

\* C18: a series of nine quarters with an interpolated point, fitted and
\* forecast, its labels those of the batch parsed
C18_Witness ==
  /\ Len(historicalData) = 9
  /\ \E i \in 1 .. 9 : historicalData[i].dataType = "Interpolated"
  /\ Periods(historicalData) = [i \in 1 .. 9 |-> PeriodAt(i)]
  /\ fittedParams # << >>
  /\ forecastData # << >>

\* C19: gompertzModel(t, K, b, t0) is NaN whenever K, b or t0 is not finite
\* or K <= 0 or b <= 0; for every other K, b, t0 and finite t it is a finite
\* value between 0 and K.
C19_ModelRejectsOrBounded ==
  call.fn = "gompertzModel" =>
    IF \/ call.K \in { NaN, PosInf, NegInf }
       \/ call.b \in { NaN, PosInf, NegInf }
       \/ call.t0 \in { NaN, PosInf, NegInf }
    THEN call.result = NaN
    ELSE IF call.K <= 0 \/ call.b <= 0 THEN call.result = NaN
    ELSE /\ call.result \notin { NaN, PosInf, NegInf }
         /\ 0 <= call.result
         /\ call.result <= call.K

\* C19: a call with positive K and b in the growing part of the curve, its
\* value strictly between 0 and K
C19_Witness ==
  /\ call.fn = "gompertzModel"
  /\ call.K = U(24) /\ call.b = 3000 /\ call.t0 = U(4) /\ call.t = U(6)
  /\ 0 < call.result
  /\ call.result < call.K

\* the adjusted parameters of a call that reaches lines 344-346
AdjustedOf(c) ==
  [K |-> AdjustedK(c.params, CapacityFactor(FSub(c.t, c.launchQuarter), c.interventionParams)),
   b |-> AdjustedB(c.params, AccelerationFactor(FSub(c.t, c.launchQuarter),
                                                 c.interventionParams)),
   t0 |-> AdjustedT0(c.params, c.interventionParams)]
ReachesAdjustment(c) ==
  c.result.path \in { "invalidAdjusted", "invalidResult", "model" }

\* the result for a configured alpha above 0.5 is the result for alpha = 0.5,
\* and the result for a configured kappa above 0.2 is that for kappa = 0.2
ClampedAsConfigured(c) ==
  /\ Gt(c.interventionParams.alpha, Scale \div 2) =>
       c.result.value = applyIntervention(c.t, c.baselineValue, c.params,
                          [c.interventionParams EXCEPT !.alpha = Scale \div 2],
                          c.launchQuarter)
  /\ Gt(c.interventionParams.kappa, Scale \div 5) =>
       c.result.value = applyIntervention(c.t, c.baselineValue, c.params,
                          [c.interventionParams EXCEPT !.kappa = Scale \div 5],
                          c.launchQuarter)

\* b <= b' <= 1.5 b, K <= K' <= 1.2 K and t0 - 5 <= t0' <= t0
WithinBounds(params, adjusted) ==
  /\ isFinite(adjusted.K) /\ isFinite(adjusted.b) /\ isFinite(adjusted.t0)
  /\ params.b <= adjusted.b /\ 2 * adjusted.b <= 3 * params.b
  /\ params.K <= adjusted.K /\ 5 * adjusted.K <= 6 * params.K
  /\ params.t0 - U(5) <= adjusted.t0 /\ adjusted.t0 <= params.t0

\* C20 as stated: applyIntervention clamps alpha at 0.5 and kappa at 0.2 when
\* it applies them, and the adjusted parameters always satisfy
\* b <= b' <= 1.5 b, K <= K' <= 1.2 K and t0 - 5 <= t0' <= t0.
C20_AdjustedAlwaysWithinBounds ==
  call.fn = "applyIntervention" =>
    /\ ClampedAsConfigured(call)
    /\ ReachesAdjustment(call) => WithinBounds(call.params, AdjustedOf(call))

\* C20: applyIntervention clamps alpha at 0.5 and kappa at 0.2 when it
\* applies them, and the adjusted parameters satisfy b <= b' <= 1.5 b,
\* K <= K' <= 1.2 K and t0 - 5 <= t0' <= t0 unless delta_t is NaN; with
\* delta_t NaN, t0' is NaN and the call returns baselineValue.
C20_AdjustedWithinBoundsUnlessNaN ==
  call.fn = "applyIntervention" =>
    /\ ClampedAsConfigured(call)
    /\ (ReachesAdjustment(call) /\ ~isNaN(call.interventionParams.delta_t)) =>
         WithinBounds(call.params, AdjustedOf(call))
    /\ (ReachesAdjustment(call) /\ isNaN(call.interventionParams.delta_t)) =>
         /\ isNaN(AdjustedOf(call).t0)
         /\ call.result.path = "invalidAdjusted"
         /\ call.result.value = call.baselineValue

\* C20: a call inside the acceleration window with alpha configured as 0.8,
\* computed through the model with the rate the clamp at 0.5 gives, which is
\* not the rate of the configured value
C20_Witness ==
  /\ call.fn = "applyIntervention"
  /\ call.interventionParams.alpha = 8000
  /\ call.result.path = "model"
  /\ Lt(FSub(call.t, call.launchQuarter), call.interventionParams.window_length)
  /\ AdjustedOf(call).b > call.params.b
  /\ AdjustedOf(call).b =
       AdjustedB(call.params,
                 AccelerationFactor(FSub(call.t, call.launchQuarter),
                                    [call.interventionParams EXCEPT !.alpha = Scale \div 2]))
  /\ AdjustedOf(call).b #
       AdjustedB(call.params,
                 MutAccelerationFactor(FSub(call.t, call.launchQuarter),
                                       call.interventionParams))

\* C21: the time index of the first forecast step of generateForecasts is
\* the number of indices 0 .. n-1 over which performFitting fitted the
\* baseline, also when missing points were left unfilled under 'ignore'.
C21_ForecastContinuesFit ==
  call.fn = "generateForecasts" => call.first = call.fitted

\* the squared error of every grid candidate of a series, whatever lines 122
\* and 125 skip; the candidates whose predictions and error are all finite;
\* and the first of them, in the order of the loops, with the least error
CandidateErrors(data) ==
  Strict(
  [c \in 1 .. GridSize |->
     LET cand == GridCandidate(Len(data), MathMaxOf(data), c)
     IN  CandidateError(data, Predictions(data, cand.K, cand.b, cand.t0))])
FiniteIn(errors) ==
  { c \in 1 .. GridSize : ~errors[c].hasNaN /\ isFinite(errors[c].error) }
FirstMinimalIn(errors, finite) ==
  CHOOSE c \in finite :
    /\ \A j \in finite : errors[c].error <= errors[j].error
    /\ \A j \in finite : j < c => errors[j].error > errors[c].error
StartExpected(data, maxAccounts, errors) ==
  IF FiniteIn(errors) = {}
  THEN [K |-> FMul(maxAccounts, 15000), b |-> 2000, t0 |-> (Len(data) * 5 * Scale) \div 10]
  ELSE GridCandidate(Len(data), maxAccounts, FirstMinimalIn(errors, FiniteIn(errors)))
TiedFirst(errors) ==
  /\ FiniteIn(errors) # {}
  /\ \E j \in FiniteIn(errors) : j < FirstMinimalIn(errors, FiniteIn(errors))
  /\ \E j \in FiniteIn(errors) :
       /\ j > FirstMinimalIn(errors, FiniteIn(errors))
       /\ errors[j].error = errors[FirstMinimalIn(errors, FiniteIn(errors))].error

\* C22 as stated: the parameters fitGompertzCurve hands to the refinement are
\* the first candidate, in the order of the loops over K multiplier, b and t0,
\* with the least squared error among the candidates whose predictions and
\* error are finite; with no such candidate they are K = max * 1.5, b = 0.2,
\* t0 = n * 0.5.
C22_StartIsFirstMinimumOfAny ==
  call.fn = "fitGompertzCurve" =>
    InitialParams(call.data, MathMaxOf(call.data)) =
      StartExpected(call.data, MathMaxOf(call.data), CandidateErrors(call.data))

\* C22: for a series that is not empty the starting parameters are the first
\* candidate with the least squared error among the candidates whose
\* predictions and error are finite, and K = max * 1.5, b = 0.2, t0 = n * 0.5
\* with no such candidate; for the empty series, where no candidate has a
\* prediction that is not finite, they are the fallback.
C22_StartIsFirstMinimum ==
  call.fn = "fitGompertzCurve" =>
    InitialParams(call.data, MathMaxOf(call.data)) =
      IF Len(call.data) = 0
      THEN [K |-> FMul(MathMaxOf(call.data), 15000), b |-> 2000, t0 |-> 0]
      ELSE StartExpected(call.data, MathMaxOf(call.data), CandidateErrors(call.data))

\* C22: a series whose least error is reached by two candidates, the first
\* of which is chosen and is not the first finite candidate of the grid
C22_Witness ==
  /\ call.fn = "fitGompertzCurve"
  /\ Len(call.data) > 0
  /\ TiedFirst(CandidateErrors(call.data))
  /\ InitialParams(call.data, MathMaxOf(call.data)) =
       StartExpected(call.data, MathMaxOf(call.data), CandidateErrors(call.data))

\* the states of the refinement loop after each of the next count iterations
\* from s (167-217), in order, and with the state before the first one
RECURSIVE Trajectory(_, _, _, _)
TrajectoryAfter(data, maxAccounts, first, count) ==
  first \o Trajectory(data, maxAccounts, LastState(first), count)
Trajectory(data, maxAccounts, s, count) ==
  IF count = 0 THEN << >>
  ELSE IF count = 1 THEN << RefineIteration(data, maxAccounts, s) >>
  ELSE TrajectoryAfter(data, maxAccounts,
                       Strict(Trajectory(data, maxAccounts, s, count \div 2)),
                       count - count \div 2)
StatesFrom(data, s) ==
  Strict(<< s >> \o Trajectory(data, MathMaxOf(data), s, iterations))
IterationStates(data) ==
  StatesFrom(data, [params |-> InitialParams(data, MathMaxOf(data)), updates |-> 0,
                    stopped |-> FALSE])

\* the candidate update of an iteration that starts from params p, whether
\* its gradients are finite, and whether it is within the bounds of the claim
FiniteGradients(g) ==
  g.validGrads /\ isFinite(g.gradK) /\ isFinite(g.gradB) /\ isFinite(g.gradT0)
WithinRefineBounds(q, maxAccounts) ==
  /\ isFinite(q.K) /\ isFinite(q.b) /\ isFinite(q.t0)
  /\ Gt(q.K, maxAccounts) /\ Lt(q.K, FMul(maxAccounts, U(5)))
  /\ Gt(q.b, Scale \div 100) /\ Lt(q.b, U(1))
CandidateOf(data, p, g) ==
  [finiteGradients |-> FiniteGradients(g),
   update |-> NewParams(p, g, Len(data)),
   passes |-> FiniteGradients(g)
              /\ WithinRefineBounds(NewParams(p, g, Len(data)), MathMaxOf(data))]
\* the candidates of the iterations 1 .. iterations, each from the parameters
\* its iteration starts with
Candidates(data, T) ==
  Strict([k \in 1 .. iterations |->
            CandidateOf(data, T[k].params, Gradients(data, T[k].params))])

\* the claim about the states T[1] (before the loop) .. T[iterations + 1]
\* and the candidates C of the iterations
RefinementAsClaimed(T, C, final) ==
  /\ \A k \in 1 .. iterations :
       \* an update is applied only if it passes, and is then the candidate
       /\ T[k + 1].updates # T[k].updates =>
            /\ C[k].passes
            /\ T[k + 1].params = C[k].update
            /\ T[k + 1].updates = T[k].updates + 1
       /\ T[k + 1].updates = T[k].updates => T[k + 1].params = T[k].params
       \* the first iteration that fails stops the loop for good
       /\ ((\A j \in 1 .. k - 1 : C[j].passes) /\ ~C[k].passes) =>
            \A j \in k + 1 .. iterations + 1 :
              T[j].params = T[k].params /\ T[j].updates = k - 1
       \* and until then every update is applied
       /\ (\A j \in 1 .. k : C[j].passes) => T[k + 1].updates = k
  /\ final.params = T[iterations + 1].params
  /\ final.updates = T[iterations + 1].updates
  /\ final.updates <= 50
RefinementWith(data, T) ==
  RefinementAsClaimed(T, Candidates(data, T), Refine(data, MathMaxOf(data), T[1].params))
RefinementOf(data) == RefinementWith(data, IterationStates(data))
\* the candidate that stopped a refinement which applied `updates` updates
StoppedBy(data, updates) ==
  Candidates(data, IterationStates(data))[updates + 1]

\* C23: in the refinement of fitGompertzCurve an update is applied only if
\* the new K is in (max, 5 max), the new b in (0.01, 1.0) and the new K, b
\* and t0 are finite; the first iteration whose update fails the test or
\* whose gradients are not finite stops the loop, no later iteration changes
\* the parameters, the final parameters are those of the last accepted update
\* or the starting ones, and at most 50 updates are applied.
C23_RefinementStopsAtFirstFailure ==
  call.fn = "fitGompertzCurve" =>
    /\ RefinementOf(call.data)
    /\ call.result.updates =
         Refine(call.data, MathMaxOf(call.data),
                InitialParams(call.data, MathMaxOf(call.data))).updates

\* C23: a fit in which some updates were applied and then one, with finite
\* gradients and a new b of at most 0.01, was rejected before the 50th
\* iteration
C23_Witness ==
  /\ call.fn = "fitGompertzCurve"
  /\ call.result.updates > 0
  /\ call.result.updates < iterations
  /\ StoppedBy(call.data, call.result.updates).finiteGradients
  /\ ~StoppedBy(call.data, call.result.updates).passes
  /\ Le(StoppedBy(call.data, call.result.updates).update.b, Scale \div 100)

\* the partial derivatives of f = K * exp(-exp(-b * (i - t0))) by the chain
\* rule, with E = exp(-b * (i - t0)) and O = exp(-E):
\*   df/dK = O,  df/db = K * O * E * (i - t0),  df/dt0 = -(K * O * E * b);
\* and the term 2 * (predicted - data[i]) * df/dparam that index i adds to the
\* derivative of the summed squared error, multiplied in the order of 192-193
DerivativeTerms(data, p, i) ==
  LET error == FSub(gompertzModel(U(i - 1), p.K, p.b, p.t0), data[i])
      E == MathExp(FMul(0 - p.b, U(i - 1) - p.t0))
      O == MathExp(FNeg(E))
      e2 == FMul(U(2), error)
      common == FMul(FMul(FMul(e2, p.K), O), E)
  IN  [dK |-> FMul(e2, O),
       db |-> FMul(common, U(i - 1) - p.t0),
       dt0 |-> FNeg(FMul(common, p.b))]
ErrorDerivatives(data, p) ==
  LET terms == Strict([i \in 1 .. Len(data) |-> DerivativeTerms(data, p, i)])
      n == Len(data)
  IN  [dK |-> SumRange(Strict([i \in 1 .. n |-> terms[i].dK]), 1, n, 0),
       db |-> SumRange(Strict([i \in 1 .. n |-> terms[i].db]), 1, n, 0),
       dt0 |-> SumRange(Strict([i \in 1 .. n |-> terms[i].dt0]), 1, n, 0)]

\* the gradients of an iteration that starts from p are the derivatives
GradientsAreDerivatives(g, d) ==
  g.validGrads =>
    /\ g.gradK = d.dK /\ Sign(g.gradK) = Sign(d.dK)
    /\ g.gradB = d.db /\ Sign(g.gradB) = Sign(d.db)
    /\ g.gradT0 = d.dt0 /\ Sign(g.gradT0) = Sign(d.dt0)
\* C24: in each refinement iteration of fitGompertzCurve the accumulated
\* gradK, gradB and gradT0 are the partial derivatives of the summed squared
\* error with respect to K, b and t0, each term being 2 * (predicted - data[i])
\* times the partial derivative of K * exp(-exp(-b * (i - t0))), so that each
\* has the sign of the true partial derivative.
C24_GradientsAreDerivatives ==
  call.fn = "fitGompertzCurve" =>
    \A k \in 1 .. iterations :
      ~IterationStates(call.data)[k].stopped =>
        GradientsAreDerivatives(
          Gradients(call.data, IterationStates(call.data)[k].params),
          ErrorDerivatives(call.data, IterationStates(call.data)[k].params))

\* the mean of a series, and its total sum of squares about the mean
MeanOf(data) == FDiv(SumFrom(data, 1), U(Len(data)))
TotalSumOfSquares(data) ==
  SumRange(Strict([i \in 1 .. Len(data) |-> Square(FSub(data[i], MeanOf(data)))]),
           1, Len(data), 0)
\* ssRes, ssTot and hasNaNPredictions at the parameters returned
ReturnedResiduals(data, params) == Residuals(data, params, MeanOf(data))

\* C25: every result returned by fitGompertzCurve has r2 in [0, 1], 0 when
\* the total sum of squares is 0, and rmse >= 0, and has valid = true only if
\* no prediction over the indices of the input was non-finite and the
\* computed R-squared was finite.
C25_FitResultRanges ==
  (call.fn = "fitGompertzCurve" /\ ~call.result.isNull) =>
    /\ isFinite(call.result.r2)
    /\ 0 <= call.result.r2 /\ call.result.r2 <= U(1)
    /\ TotalSumOfSquares(call.data) = 0 => call.result.r2 = 0
    /\ ~isNaN(call.result.rmse) /\ Ge(call.result.rmse, 0)
    /\ call.result.valid =>
         /\ \A i \in 1 .. Len(call.data) :
              isFinite(gompertzModel(U(i - 1), call.result.params.K, call.result.params.b,
                                     call.result.params.t0))
         /\ isFinite(RSquared(ReturnedResiduals(call.data, call.result.params)))

\* C25: a valid fit whose residual sum of squares is above a positive total
\* sum of squares, so that 1 - ssRes / ssTot is negative and r2 is 0
C25_Witness ==
  /\ call.fn = "fitGompertzCurve"
  /\ ~call.result.isNull
  /\ call.result.valid
  /\ TotalSumOfSquares(call.data) > 0
  /\ Gt(ReturnedResiduals(call.data, call.result.params).ssRes, TotalSumOfSquares(call.data))
  /\ call.result.r2 = 0
  /\ call.result.rmse > 0

\* a point is missing exactly when it has no value and exactly when its
\* classification is 'Missing'
MissingAgrees(d) ==
  /\ d.isMissing <=> d.accounts = Null
  /\ d.isMissing <=> d.dataType = "Missing"
\* every point of the series before the step that has a value keeps one
StaysFilled(before, after) ==
  \A i \in 1 .. Len(before) :
    ~before[i].isMissing => (i <= Len(after) /\ ~after[i].isMissing)

\* C26: after every step, each point of state.historicalData is missing if
\* and only if its value is null and if and only if its classification is
\* 'Missing'; and a step other than a parse, a clear or a reset, each of
\* which replaces the series, leaves no point missing that was not missing.
C26_MissingIsConsistent ==
  [][/\ \A i \in 1 .. Len(historicalData') : MissingAgrees(historicalData'[i])
     /\ \/ StaysFilled(historicalData, historicalData')
        \/ \E lines \in Batches : ParseAndDisplayData(lines)
        \/ ClearData
        \/ ResetAll]_vars

\* C26: a series with a point typed in by editCell and a point confirmed by
\* confirmCell, both with a value
C26_Witness ==
  /\ \E i \in 1 .. Len(historicalData) :
       /\ historicalData[i].dataType = "Corrected"
       /\ ~historicalData[i].isMissing
       /\ historicalData[i].accounts # Null
  /\ \E i \in 1 .. Len(historicalData) :
       /\ historicalData[i].dataType = "Confirmed"
       /\ ~historicalData[i].isMissing

\* C27: after confirmCell(index), the re-analysis it runs included, the
\* point has the classification 'Confirmed' and is not flagged, and a further
\* analyzeDataQuality of the unchanged series leaves it unflagged.
C27_ConfirmedStaysUnflagged ==
  [][\A index \in Rows :
       ConfirmCell(index) =>
         /\ historicalData'[index].dataType = "Confirmed"
         /\ ~historicalData'[index].isOutlier
         /\ ~analyzeDataQuality(historicalData').data[index].isOutlier]_vars

\* C28: the bundle generateForecasts stores has periods, baseline,
\* conservative, moderate and aggressive of one length, the number of forecast
\* quarters, whatever period label parseAndDisplayData accepted for the last
\* historical row.
C28_BundleLengths ==
  (call.fn = "generateForecasts" /\ forecastData # << >>) =>
    /\ Len(forecastData[1].periods) = call.forecastQuarters
    /\ Len(forecastData[1].baseline) = call.forecastQuarters
    /\ Len(forecastData[1].conservative) = call.forecastQuarters
    /\ Len(forecastData[1].moderate) = call.forecastQuarters
    /\ Len(forecastData[1].aggressive) = call.forecastQuarters

\* the runs of consecutive missing points of a series with a point that is
\* not missing on either side, as the pairs of the positions of those two
BoundedRuns(data) ==
  { pq \in (1 .. Len(data)) \X (1 .. Len(data)) :
      /\ pq[1] + 1 < pq[2]
      /\ ~data[pq[1]].isMissing
      /\ ~data[pq[2]].isMissing
      /\ \A j \in pq[1] + 1 .. pq[2] - 1 : data[j].isMissing }

\* v is P + (Q - P) * (i - p) / (q - p) to the resolution of the arithmetic,
\* both sides multiplied by the gap q - p
OnTheLine(v, P, Q, position, gap) ==
  Abs(v * gap - (P * gap + (Q - P) * position)) <= gap * (Abs(Q - P) \div Scale + 1)

\* C29: applyInterpolation with the method linear fills the missing points in
\* increasing order, each fill seeing the fills before it, and for a run of
\* missing points between two points that are not missing the value written
\* to each point of the run is the linear interpolation between the two
\* original bounding values at its position; where that is not a finite
\* number nothing is written.
C29_RunsFilledOnTheLine ==
  (call.fn = "applyInterpolation" /\ call.method = "linear") =>
    \A pq \in BoundedRuns(call.data) :
      \A i \in pq[1] + 1 .. pq[2] - 1 :
        IF isFinite(call.data[pq[1]].accounts) /\ isFinite(call.data[pq[2]].accounts)
        THEN /\ ~call.after[i].isMissing
             /\ call.after[i].dataType = "Interpolated"
             /\ OnTheLine(call.after[i].accounts, call.data[pq[1]].accounts,
                          call.data[pq[2]].accounts, i - pq[1], pq[2] - pq[1])
        ELSE call.after[i].isMissing

\* C29: a run of two missing points between 4 and 10, filled with 6 and 8 to
\* the resolution of the arithmetic, the second fill having seen the first
C29_Witness ==
  /\ call.fn = "applyInterpolation"
  /\ call.method = "linear"
  /\ << 3, 6 >> \in BoundedRuns(call.data)
  /\ call.data[3].accounts = U(4)
  /\ call.data[6].accounts = U(10)
  /\ Abs(call.after[4].accounts - U(6)) <= 21
  /\ Abs(call.after[5].accounts - U(8)) <= 21
  /\ call.after[5].accounts =
       linearInterpolation([call.data EXCEPT ![4] = call.after[4]], 5)

=============================================================================
